---- MODULE Spec2Model ----
(***************************************************************************)
(* The checkpointed, resumable, retry-driven pipelines of VLURes:          *)
(*   scripts/run_evaluation.py               (LLM-as-a-judge scoring)      *)
(*   scripts/run_zeroshot_no_rationales.py   (inference)                   *)
(*   scripts/run_zeroshot_with_rationales.py (inference with rationales)   *)
(*   scripts/download_data.py                (image download)              *)
(*                                                                         *)
(* Texts (file names, identifiers, responses) are sequences of one-letter  *)
(* strings.  A Python OrderedDict, and the JSON object it is dumped to, is *)
(* a sequence of entries [k |-> key, v |-> value] without repeated keys.   *)
(***************************************************************************)
EXTENDS Integers, Sequences, FiniteSets, TLC

(***************************************************************************)
(* Program constants.                                                      *)
(***************************************************************************)
MAX_RETRIES == 3
MAX_WORKERS == 10
NUM_WORKERS == 16
BATCH_SIZE == 8
CHECKPOINT_EVERY == 20
DEFAULT_SCORE == 50
SCORE_MIN == 0
SCORE_MAX == 100
FIRST_IMAGE_TEXT_TASK == 6
NUM_TASKS == 8

(***************************************************************************)
(* Bounds of the model.                                                    *)
(***************************************************************************)
SmallItems == 3
FlakyFirst == 2
MaxFaults == 1
MaxRuns == 2
MaxOver == 50

\* Longest text before and after the rationale marker.
MaxAffix == 2

\* Records of one split that carry the same id.
MaxSameId == 2

\* Pieces a model name of the file name model is made of.
MaxPieces == 3

(***************************************************************************)
(* OrderedDict / JSON object.                                              *)
(***************************************************************************)
Keys(d) == {d[i].k : i \in 1..Len(d)}

Has(d, key) == \E i \in 1..Len(d) : d[i].k = key

Get(d, key) == d[CHOOSE i \in 1..Len(d) : d[i].k = key].v

\* d[key] = value: an existing key keeps its position, a new key is appended.
Put(d, key, value) ==
    IF Has(d, key)
    THEN [i \in 1..Len(d) |-> IF d[i].k = key THEN [k |-> key, v |-> value] ELSE d[i]]
    ELSE Append(d, [k |-> key, v |-> value])

\* A file of the store: absent, a JSON object, or what open(path, 'w')
\* leaves when json.dump did not finish: text that is no JSON.
NoFile == [exists |-> FALSE, valid |-> TRUE, data |-> <<>>]

JsonFile(d) == [exists |-> TRUE, valid |-> TRUE, data |-> d]

TornFile == [exists |-> TRUE, valid |-> FALSE, data |-> <<>>]

(***************************************************************************)
(* Text helpers.                                                           *)
(***************************************************************************)
DigitChars == {"0", "1", "2", "3", "4", "5", "6", "7", "8", "9"}

DigitChar(n) ==
    CASE n = 0 -> "0" [] n = 1 -> "1" [] n = 2 -> "2" [] n = 3 -> "3"
      [] n = 4 -> "4" [] n = 5 -> "5" [] n = 6 -> "6" [] n = 7 -> "7"
      [] n = 8 -> "8" [] n = 9 -> "9"

\* str(n) for a natural number n.
RECURSIVE StrOfNat(_)
StrOfNat(n) ==
    IF n < 10 THEN <<DigitChar(n)>>
    ELSE Append(StrOfNat(n \div 10), DigitChar(n % 10))

(***************************************************************************)
(* run_evaluation.py: the judge.                                           *)
(*                                                                         *)
(* The value of score_data.get("score"):                                   *)
(*   "num"     a JSON number v                                             *)
(*   "numstr"  a JSON string that float() reads as the number v            *)
(*   "text"    a JSON string that float() rejects (ValueError)             *)
(*   "missing" no score key, or null (TypeError)                           *)
(*   "nan"     the JSON literal NaN, which json.loads accepts              *)
(***************************************************************************)
Num(v) == [t |-> "num", v |-> v]

NumStr(v) == [t |-> "numstr", v |-> v]

NotANumber == [t |-> "nan", v |-> 0]

NonNumericText == [t |-> "text", v |-> 0]

MissingScore == [t |-> "missing", v |-> 0]

None == [t |-> "none", v |-> 0]

\* clip_score without the test of line 44: no upper limit.
clip_score_NoUpper(score) ==
    CASE score.t \in {"num", "numstr"} ->
            IF score.v < SCORE_MIN THEN Num(SCORE_MIN) ELSE Num(score.v)
      [] score.t = "nan" -> NotANumber
      [] OTHER -> None

\* clip_score(score).  float(nan) is below neither bound and is returned.
clip_score(score) ==
    CASE score.t \in {"num", "numstr"} ->
            IF score.v < SCORE_MIN THEN Num(SCORE_MIN)
            ELSE IF score.v > SCORE_MAX THEN Num(SCORE_MAX)
            ELSE Num(score.v)
      [] score.t = "nan" -> NotANumber
      [] OTHER -> None

(***************************************************************************)
(* What one POST to the judge can bring:                                   *)
(*   "neterr"      requests.exceptions.RequestException (connection error, *)
(*                 timeout, raise_for_status on a non-2xx status)          *)
(*   "badstruct"   the body lacks candidates[0].content.parts[0].text      *)
(*                 (KeyError, IndexError)                                  *)
(*   "unparseable" the text is not JSON (json.JSONDecodeError)             *)
(*   "nonobject"   the text is JSON but no object (a number, a list, a     *)
(*                 string, null): score_data.get raises AttributeError     *)
(*   "object"      the text is a JSON object; score is its score field     *)
(***************************************************************************)
NetErr == [kind |-> "neterr", score |-> None]

BadStruct == [kind |-> "badstruct", score |-> None]

Unparseable == [kind |-> "unparseable", score |-> None]

NonObject == [kind |-> "nonobject", score |-> None]

Object(score) == [kind |-> "object", score |-> score]

\* One pass through the try block of evaluate_one_item:
\* "return" with a value, "raise" (no except clause matches), or "retry"
\* (control reaches the retry test after the try statement).
JudgeAttempt(o) ==
    CASE o.kind = "object" ->
            IF clip_score(o.score) # None
            THEN [act |-> "return", value |-> [score |-> clip_score(o.score)]]
            ELSE [act |-> "retry", value |-> [score |-> None]]
      [] o.kind = "nonobject" -> [act |-> "raise", value |-> [score |-> None]]
      [] OTHER -> [act |-> "retry", value |-> [score |-> None]]

\* evaluate_one_item(session, text_id, prompt, retry_count) when the i-th
\* POST from now on brings outs[i].  calls counts the POSTs, sleeps the
\* time.sleep(RETRY_DELAY) calls.
RECURSIVE evaluate_one_item(_, _, _)
evaluate_one_item(text_id, outs, retry_count) ==
    LET a == JudgeAttempt(Head(outs)) IN
    CASE a.act = "return" ->
            [raised |-> FALSE, id |-> text_id, value |-> a.value, calls |-> 1, sleeps |-> 0]
      [] a.act = "raise" ->
            [raised |-> TRUE, id |-> text_id, value |-> a.value, calls |-> 1, sleeps |-> 0]
      [] OTHER ->
            IF retry_count < MAX_RETRIES
            THEN LET r == evaluate_one_item(text_id, Tail(outs), retry_count + 1) IN
                 [r EXCEPT !.calls = @ + 1, !.sleeps = @ + 1]
            ELSE [raised |-> FALSE, id |-> text_id,
                  value |-> [score |-> Num(DEFAULT_SCORE)], calls |-> 1, sleeps |-> 0]

(***************************************************************************)
(* Text functions of the inference scripts.                                *)
(***************************************************************************)
DigitValue(c) ==
    CASE c = "0" -> 0 [] c = "1" -> 1 [] c = "2" -> 2 [] c = "3" -> 3
      [] c = "4" -> 4 [] c = "5" -> 5 [] c = "6" -> 6 [] c = "7" -> 7
      [] c = "8" -> 8 [] c = "9" -> 9

\* a < b for two Python strings of digits (the keys sorted() compares).
RECURSIVE StrLess(_, _)
StrLess(a, b) ==
    IF b = <<>> THEN FALSE
    ELSE IF a = <<>> THEN TRUE
    ELSE IF Head(a) = Head(b) THEN StrLess(Tail(a), Tail(b))
    ELSE DigitValue(Head(a)) < DigitValue(Head(b))

\* text[a:b] of Python, for 0 <= a.
Slice(text, a, b) ==
    IF a >= Len(text) \/ b <= a THEN <<>>
    ELSE SubSeq(text, a + 1, IF b > Len(text) THEN Len(text) ELSE b)

Whitespace == {" ", "\n", "\t"}

RECURSIVE LStrip(_)
LStrip(text) ==
    IF text # <<>> /\ Head(text) \in Whitespace THEN LStrip(Tail(text)) ELSE text

RECURSIVE RStrip(_)
RStrip(text) ==
    IF text # <<>> /\ text[Len(text)] \in Whitespace
    THEN RStrip(SubSeq(text, 1, Len(text) - 1)) ELSE text

\* str.strip()
Strip(text) == RStrip(LStrip(text))

\* str.lower() of one character.  "I-dot" stands for U+0130, whose lower
\* case is two characters: "i" and the combining dot U+0307.
LowerChar(c) ==
    CASE c = "Y" -> <<"y">>
      [] c = "O" -> <<"o">>
      [] c = "U" -> <<"u">>
      [] c = "R" -> <<"r">>
      [] c = "A" -> <<"a">>
      [] c = "T" -> <<"t">>
      [] c = "I" -> <<"i">>
      [] c = "N" -> <<"n">>
      [] c = "L" -> <<"l">>
      [] c = "E" -> <<"e">>
      [] c = "I-dot" -> <<"i", "dot">>
      [] OTHER -> <<c>>

RECURSIVE Lower(_)
Lower(text) ==
    IF text = <<>> THEN <<>> ELSE LowerChar(Head(text)) \o Lower(Tail(text))

\* str.find(sub): the least 0-based index where sub occurs, or -1.
Find(text, sub) ==
    LET At(i) == i + Len(sub) <= Len(text) /\ SubSeq(text, i + 1, i + Len(sub)) = sub
        hits == {i \in 0..Len(text) : At(i)}
    IN  IF hits = {} THEN -1 ELSE CHOOSE i \in hits : \A j \in hits : i <= j

RATIONALE_MARKER ==
    <<"y", "o", "u", "r", " ", "r", "a", "t", "i", "o", "n", "a", "l", "e", ":">>

NO_RATIONALE ==
    <<"N", "o", " ", "e", "x", "p", "l", "i", "c", "i", "t", " ",
      "r", "a", "t", "i", "o", "n", "a", "l", "e", " ",
      "p", "r", "o", "v", "i", "d", "e", "d", ".">>

\* parse_response_and_rationale(response_text): the split is decided and
\* located on the lower-cased text, and cut out of the original text.
parse_response_and_rationale(response_text) ==
    LET split_index == Find(Lower(response_text), RATIONALE_MARKER) IN
    IF split_index >= 0
    THEN [analysis |-> Strip(Slice(response_text, 0, split_index)),
          rationale |-> Strip(Slice(response_text, split_index + Len(RATIONALE_MARKER),
                                    Len(response_text)))]
    ELSE [analysis |-> Strip(response_text), rationale |-> NO_RATIONALE]

(***************************************************************************)
(* Files of a data directory: [stem, ext] is the file name stem.ext.       *)
(***************************************************************************)
File(stem, ext) == [stem |-> stem, ext |-> ext]

IsDigit(c) == c \in DigitChars

\* get_image_id(filename): the digits of the name without its extension.
get_image_id(filename) == SelectSeq(filename.stem, IsDigit)

\* f.lower().endswith(('.png', '.jpg', '.jpeg'))
ExtLower(ext) ==
    CASE ext = "JPG" -> "jpg" [] ext = "PNG" -> "png" [] ext = "JPEG" -> "jpeg"
      [] OTHER -> ext

IsImageFile(filename) == ExtLower(filename.ext) \in {"png", "jpg", "jpeg"}

\* f"text{image_id}.txt"
TextFileOf(image_id) == File(<<"t", "e", "x", "t">> \o image_id, "txt")

\* sorted(files, key=get_image_id): a stable sort on the key strings.
InsertByKey(sorted, f) ==
    LET later == {i \in 1..Len(sorted) : StrLess(get_image_id(f), get_image_id(sorted[i]))}
        at == IF later = {} THEN Len(sorted) + 1
              ELSE CHOOSE i \in later : \A j \in later : i <= j
    IN  SubSeq(sorted, 1, at - 1) \o <<f>> \o SubSeq(sorted, at, Len(sorted))

RECURSIVE SortedByKey(_)
SortedByKey(files) ==
    IF files = <<>> THEN <<>>
    ELSE InsertByKey(SortedByKey(SubSeq(files, 1, Len(files) - 1)), files[Len(files)])

\* os.listdir gives the files of the directory in an order of its own: the
\* model tries the rotations of an enumeration and of its reverse.
Reverse(seq) == [i \in 1..Len(seq) |-> seq[Len(seq) + 1 - i]]

Rotations(seq) ==
    {SubSeq(seq, i, Len(seq)) \o SubSeq(seq, 1, i - 1) : i \in 1..Len(seq)}

Listings(files) == Rotations(files) \cup Rotations(Reverse(files))

Range(seq) == {seq[i] : i \in 1..Len(seq)}

(***************************************************************************)
(* process_batch of the inference scripts.                                 *)
(*   "error"  client.chat.completions.create raises, or the message has no *)
(*            content (None.strip() raises): except Exception catches both *)
(*   "ok"     the message content is text                                  *)
(***************************************************************************)
ApiError == [kind |-> "error", text |-> <<>>]

ApiText(text) == [kind |-> "ok", text |-> text]

\* process_batch(client, model, messages, ..., retry_count) when the i-th
\* request from now on brings outs[i].
RECURSIVE process_batch(_, _)
process_batch(outs, retry_count) ==
    IF Head(outs).kind = "ok"
    THEN [none |-> FALSE, text |-> Strip(Head(outs).text), calls |-> 1, sleeps |-> 0]
    ELSE IF retry_count < MAX_RETRIES
    THEN LET r == process_batch(Tail(outs), retry_count + 1) IN
         [r EXCEPT !.calls = @ + 1, !.sleeps = @ + 1]
    ELSE [none |-> TRUE, text |-> <<>>, calls |-> 1, sleeps |-> 0]

\* "if result:" - None and the empty string are false.
Truthy(result) == ~result.none /\ result.text # <<>>

(***************************************************************************)
(* State of one run scope (one inference or score file) and of the process *)
(* that runs a pipeline on it.                                             *)
(***************************************************************************)
VARIABLES
    pipeline,   \* "eval", "norat" or "rat": the script that is run
    task,       \* the task number of the scope
    infile,     \* eval: the inference output file (vlm_responses)
    dir,        \* inference: the data directory [files, bad, unreadable]
    config,     \* what the configuration of the scope lacks, or "ok"
    makedirs,   \* the output and checkpoint directories were created
    ckpt,       \* the checkpoint file of the scope
    out,        \* the output file of the scope
    pc,         \* position of the process in main
    results,    \* eval_results / results: the in-memory OrderedDict
    todo,       \* tasks_to_run / files_to_process still ahead of the loop
    runs,       \* number of runs started
    faults,     \* number of remote calls that deviated from the usual answer
    called,     \* ids whose remote call was issued in the current run
    ncalls,     \* remote calls issued in the current run
    nfails,     \* remote calls of the current run that brought no result
    snap,       \* the store as the current run found it, and how the run before ended
    ended,      \* how the last run ended
    gaveup,     \* the files (inference) or ids (evaluation) whose invocation used up its retries in the current run
    inv,        \* one call of a retrying invoker, attempt by attempt
    dl,         \* the download pipeline: the image files and the worker
    pool        \* a worker pool: its futures, its threads and the dispatcher

vars == <<pipeline, task, infile, dir, config, makedirs, ckpt, out, pc, results, todo, runs,
          faults, called, ncalls, nfails, snap, ended, gaveup, inv, dl, pool>>

\* What no step of a pipeline run changes.
scope == <<pipeline, task, infile, dir, config, inv, dl, pool>>

\* What the steps of one invoker call and of the download leave alone.
run == <<pipeline, task, infile, dir, config, makedirs, ckpt, out, pc, results, todo, runs,
         faults, called, ncalls, nfails, snap, ended, gaveup>>

\* The values of a response file of run_zeroshot_no_rationales.py (a str)
\* and of run_zeroshot_with_rationales.py (a dict).
StrValue(text) == [type |-> "str", text |-> text]

DictValue(id, n, analysis, rationale) ==
    [type |-> "dict", id |-> id, task |-> n, analysis |-> analysis, rationale |-> rationale]

\* TASK_INSTRUCTIONS has the keys 1 and 8.
TASK_INSTRUCTIONS == {1, 8}

\* The judge's usual answer, and the deviations the model explores.
UsualJudge == <<Object(Num(70)), NetErr, NetErr, NetErr>>

JudgeDeviations ==
    { <<Object(Num(150)), NetErr, NetErr, NetErr>>,
      <<NetErr, BadStruct, Object(NumStr(60)), NetErr>>,
      <<NetErr, Object(NonNumericText), Unparseable, Object(MissingScore)>>,
      <<NetErr, NetErr, NetErr, NonObject>>,
      <<Object(NotANumber), NetErr, NetErr, NetErr>> }

\* The remote endpoint may deviate on the first FlakyFirst work items of the
\* scope and on the last one, MaxFaults times in all.
Position(seq, key) == CHOOSE i \in 1..Len(seq) : seq[i] = key

Flaky(ids, key) ==
    /\ faults < MaxFaults
    /\ Position(ids, key) <= FlakyFirst \/ Position(ids, key) = Len(ids)

JudgeAnswers(ids, key) ==
    {UsualJudge} \cup (IF Flaky(ids, key) THEN JudgeDeviations ELSE {})

\* How a run may start: the process is not running, and runs are left.
CanStart == pc \in {"idle", "done", "refused", "failed", "killed"} /\ runs < MaxRuns

Snapshot == [ckpt |-> ckpt, out |-> out, prev |-> ended, gaveup |-> gaveup]

(***************************************************************************)
(* run_evaluation.py, main, for one inference output file.                 *)
(***************************************************************************)
\* Lines 72-79: read_text_file gives the stripped text of the file; when
\* open or read raises it prints the error and gives the text
\* "Error reading file.", never None.
read_text_file(text_path) ==
    IF text_path \in Range(dir.files) /\ text_path \notin dir.unreadable
    THEN [none |-> FALSE, text |-> "content"]
    ELSE [none |-> FALSE, text |-> "Error reading file."]

\* TasksToRun without the test of line 216: every item gets a prompt.
TasksToRun_NoSkip(responses, eval_results) == responses

\* TasksToRun that takes an entry of the default score for no entry.
TasksToRun_RetryDefault(responses, eval_results) ==
    LET Pending(e) ==
            /\ \/ ~Has(eval_results, e.k)
               \/ Get(eval_results, e.k) = [score |-> Num(DEFAULT_SCORE)]
            /\ ~read_text_file(TextFileOf(e.k)).none
    IN  SelectSeq(responses, Pending)

\* Lines 215-230: the items that get a prompt.
TasksToRun(responses, eval_results) ==
    LET Pending(e) ==
            /\ ~Has(eval_results, e.k)
            /\ ~read_text_file(TextFileOf(e.k)).none
    IN  SelectSeq(responses, Pending)

\* Line 227: response_data[f"Task_{task}"] and TASK_INSTRUCTIONS[task].
PromptRaises(response_data, n) ==
    \/ response_data.type # "dict"
    \/ response_data.task # n
    \/ n \notin TASK_INSTRUCTIONS

LoadCheckpoint(file) == IF file.exists THEN file.data ELSE <<>>

\* The test of line 246 with a period of CHECKPOINT_EVERY + 1.
FlushDue_Late(eval_results) == Len(eval_results) % (CHECKPOINT_EVERY + 1) = 0

\* Line 246: len(eval_results) % 20 == 0.
FlushDue(eval_results) == Len(eval_results) % CHECKPOINT_EVERY = 0

\* A json.load that reads every file without an exception.
LoadRaises_Never(file) == FALSE

\* json.load raises json.JSONDecodeError on a file that holds no JSON; main
\* has no handler for it.
LoadRaises(file) == file.exists /\ ~file.valid

EvalStart ==
    /\ pipeline = "eval"
    /\ CanStart
    /\ LET eval_results == LoadCheckpoint(ckpt)
           tasks_to_run == TasksToRun(infile, eval_results)
       IN  IF config \in {"no_credential", "no_input"}
           THEN \* lines 170-172 and 183-185: print the error and return
                /\ pc' = "refused" /\ ended' = "refused"
                /\ results' = <<>> /\ todo' = <<>>
                /\ makedirs' = makedirs
           ELSE \* lines 201-202: os.makedirs of the two directories
                /\ makedirs' = TRUE
                /\ results' = eval_results
                /\ IF \/ LoadRaises(ckpt)
                      \/ \E i \in 1..Len(tasks_to_run) :
                            PromptRaises(tasks_to_run[i].v, task)
                   THEN pc' = "failed" /\ ended' = "failed" /\ todo' = <<>>
                   ELSE IF tasks_to_run = <<>>
                   THEN pc' = "done" /\ ended' = "noop" /\ todo' = <<>>
                   ELSE /\ pc' = "loop"
                        /\ ended' = "running"
                        /\ todo' = [i \in 1..Len(tasks_to_run) |-> tasks_to_run[i].k]
    /\ runs' = runs + 1
    /\ called' = {}
    /\ ncalls' = 0
    /\ nfails' = 0
    /\ snap' = Snapshot
    /\ gaveup' = {}
    /\ UNCHANGED <<scope, ckpt, out, faults>>

\* The invocation ended at line 162: its last POST brought no score either.
EvalExhausted(outs, r) == ~r.raised /\ JudgeAttempt(outs[r.calls]).act # "return"

\* The POSTs of an invocation that brought no score.
EvalFails(outs, r) ==
    IF JudgeAttempt(outs[r.calls]).act = "return" THEN r.calls - 1 ELSE r.calls

\* Lines 241-248: future.result() of the next future of future_to_id, the
\* merge of its result and the checkpoint write.  An exception of the
\* worker is raised again by future.result() and leaves main.
EvalMerge ==
    /\ pipeline = "eval"
    /\ pc = "loop"
    /\ \E outs \in JudgeAnswers([i \in 1..Len(infile) |-> infile[i].k], Head(todo)) :
        LET r == evaluate_one_item(Head(todo), outs, 0)
            merged == Put(results, r.id, r.value)
        IN  /\ faults' = IF outs = UsualJudge THEN faults ELSE faults + 1
            /\ called' = called \cup {Head(todo)}
            /\ ncalls' = ncalls + r.calls
            /\ nfails' = nfails + EvalFails(outs, r)
            /\ gaveup' = IF EvalExhausted(outs, r) THEN gaveup \cup {r.id} ELSE gaveup
            /\ IF r.raised
               THEN /\ pc' = "failed"
                    /\ ended' = "failed"
                    /\ results' = <<>>
                    /\ todo' = <<>>
                    /\ ckpt' = ckpt
               ELSE /\ results' = merged
                    /\ todo' = Tail(todo)
                    /\ pc' = IF Tail(todo) = <<>> THEN "save" ELSE "loop"
                    /\ ended' = ended
                    /\ ckpt' = IF FlushDue(merged) THEN JsonFile(merged) ELSE ckpt
    /\ UNCHANGED <<scope, makedirs, out, runs, snap>>

\* A final save that writes the results of the current run only.
EvalFinalSave_NewOnly ==
    /\ pipeline = "eval"
    /\ pc = "save"
    /\ LET New(e) == e.k \in called IN out' = JsonFile(SelectSeq(results, New))
    /\ pc' = "rmckpt"
    /\ UNCHANGED <<scope, makedirs, ckpt, results, todo, runs, faults, called, ncalls, nfails, snap, ended, gaveup>>

\* Lines 251-252: the final save.
EvalFinalSave ==
    /\ pipeline = "eval"
    /\ pc = "save"
    /\ out' = JsonFile(results)
    /\ pc' = "rmckpt"
    /\ UNCHANGED <<scope, makedirs, ckpt, results, todo, runs, faults, called, ncalls, nfails, snap, ended, gaveup>>

\* Lines 255-256: the checkpoint is removed.
EvalRemoveCheckpoint ==
    /\ pipeline = "eval"
    /\ pc = "rmckpt"
    /\ ckpt' = NoFile
    /\ pc' = "done"
    /\ ended' = "saved"
    /\ UNCHANGED <<scope, makedirs, out, results, todo, runs, faults, called, ncalls, nfails, snap, gaveup>>

\* The process is killed while it runs; the files stay as they are.
Kill ==
    /\ pc \in {"loop", "save", "rmckpt"}
    /\ pc' = "killed"
    /\ ended' = "killed"
    /\ results' = <<>>
    /\ todo' = <<>>
    /\ UNCHANGED <<scope, makedirs, ckpt, out, runs, faults, called, ncalls, nfails, snap, gaveup>>

(***************************************************************************)
(* run_zeroshot_no_rationales.py and run_zeroshot_with_rationales.py, main.*)
(***************************************************************************)
SomeText == <<"o", "k">>

OtherText == <<"n", "o">>

BlankText == <<" ">>

RationaleText ==
    <<"A", " ", "Y", "o", "u", "r", " ", "R", "a", "t", "i", "o", "n", "a", "l", "e",
      ":", " ", "b">>

\* The inference endpoint's usual answer, and the deviations the model explores.
UsualApi == <<ApiText(SomeText), ApiError, ApiError, ApiError>>

ApiDeviations ==
    { <<ApiError, ApiError, ApiError, ApiError>>,
      <<ApiError, ApiError, ApiText(OtherText), ApiError>>,
      <<ApiText(BlankText), ApiError, ApiError, ApiError>>,
      <<ApiText(RationaleText), ApiError, ApiError, ApiError>> }

ApiAnswers(filenames) ==
    {UsualApi} \cup
    (IF \E i \in 1..Len(filenames) : Flaky(dir.files, filenames[i])
     THEN ApiDeviations ELSE {})

\* Lines 270 (753): the image files of the listing, sorted by get_image_id.
AllFiles(listing) == SortedByKey(SelectSeq(listing, IsImageFile))

\* The filter of lines 278-279 without its test: every file stays.
FilesToProcess_All(all_files, loaded) == all_files

\* Lines 278-279 (761-762): the files whose id is not a key of the checkpoint.
FilesToProcess(all_files, loaded) ==
    LET processed_ids == Keys(loaded)
        Pending(f) == get_image_id(f) \notin processed_ids
    IN  SelectSeq(all_files, Pending)

\* What results[image_id] is set to for a response, in each script.
ResultValue(image_id, text) ==
    IF pipeline = "norat" THEN StrValue(text)
    ELSE LET p == parse_response_and_rationale(text) IN
         DictValue(image_id, task, p.analysis, p.rationale)

\* encode_image gives None for a file it cannot read and "" for an empty one.
Encodable(filename) == filename \notin dir.bad

\* read_text_file gives None for a file it cannot read.
Readable(textfile) == textfile \notin dir.unreadable

InferStart ==
    /\ pipeline \in {"norat", "rat"}
    /\ CanStart
    /\ CASE config = "no_credential" ->
               \* line 17: client = OpenAI() raises when the module is loaded
               /\ pc' = "failed" /\ ended' = "failed"
               /\ results' = <<>> /\ todo' = <<>>
               /\ makedirs' = makedirs
         [] config \in {"no_language", "no_task"} ->
               \* lines 244-252 (727-735): print the error and return
               /\ pc' = "refused" /\ ended' = "refused"
               /\ results' = <<>> /\ todo' = <<>>
               /\ makedirs' = makedirs
         [] config = "no_input" ->
               \* lines 265-270 (748-753): os.makedirs of the two
               \* directories, then os.listdir(data_path) raises
               /\ pc' = "failed" /\ ended' = "failed"
               /\ results' = <<>> /\ todo' = <<>>
               /\ makedirs' = TRUE
         [] OTHER ->
               \E listing \in Listings(dir.files) :
                 LET loaded == LoadCheckpoint(ckpt)
                     files_to_process == FilesToProcess(AllFiles(listing), loaded)
                 IN  /\ makedirs' = TRUE
                     /\ results' = loaded
                     /\ todo' = IF LoadRaises(ckpt) THEN <<>> ELSE files_to_process
                     /\ IF LoadRaises(ckpt)
                        THEN pc' = "failed" /\ ended' = "failed"
                        ELSE IF files_to_process = <<>>
                        THEN pc' = "done" /\ ended' = "noop"
                        ELSE pc' = "loop" /\ ended' = "running"
    /\ runs' = runs + 1
    /\ called' = {}
    /\ ncalls' = 0
    /\ nfails' = 0
    /\ snap' = Snapshot
    /\ gaveup' = {}
    /\ UNCHANGED <<scope, ckpt, out, faults>>

\* The requests of a call of process_batch that raised.
BatchFails(result) == IF result.none THEN result.calls ELSE result.calls - 1

AfterLoop(rest) == IF rest = <<>> THEN "save" ELSE "loop"

\* Lines 297-305 (780-786): the item has its text file, and both files can
\* be read; otherwise the iteration ends by continue.
ItemSendable(filename) ==
    /\ TextFileOf(get_image_id(filename)) \in Range(dir.files)
    /\ Encodable(filename)
    /\ Readable(TextFileOf(get_image_id(filename)))

\* Lines 292-327 (775-803): one iteration of the image-text loop.
InferItem ==
    /\ pipeline \in {"norat", "rat"}
    /\ task >= FIRST_IMAGE_TEXT_TASK
    /\ pc = "loop"
    /\ LET filename == Head(todo)
           image_id == get_image_id(filename)
       IN  IF ~ItemSendable(filename)
           THEN UNCHANGED <<results, ckpt, faults, called, ncalls, nfails, gaveup>>
           ELSE \E outs \in ApiAnswers(<<filename>>) :
                LET result == process_batch(outs, 0)
                    after == IF Truthy(result)
                             THEN Put(results, image_id, ResultValue(image_id, result.text))
                             ELSE results
                IN  /\ results' = after
                    /\ ckpt' = JsonFile(after)
                    /\ faults' = IF outs = UsualApi THEN faults ELSE faults + 1
                    /\ called' = called \cup {image_id}
                    /\ ncalls' = ncalls + result.calls
                    /\ nfails' = nfails + BatchFails(result)
                    /\ gaveup' = IF result.none THEN gaveup \cup {filename} ELSE gaveup
    /\ todo' = Tail(todo)
    /\ pc' = AfterLoop(Tail(todo))
    /\ UNCHANGED <<scope, makedirs, out, runs, snap, ended>>

\* results[get_image_id(f)] = value for the files of a list, in order.
RECURSIVE AssignAll(_, _, _)
AssignAll(d, filenames, text) ==
    IF filenames = <<>> THEN d
    ELSE AssignAll(Put(d, get_image_id(Head(filenames)),
                       ResultValue(get_image_id(Head(filenames)), text)),
                   Tail(filenames), text)

\* The files of a batch that get the batch's response: all of them in
\* run_zeroshot_no_rationales.py (line 357), the encoded ones in
\* run_zeroshot_with_rationales.py (line 828).
BatchTargets(batch_filenames) ==
    IF pipeline = "norat" THEN batch_filenames
    ELSE SelectSeq(batch_filenames, Encodable)

\* Lines 333-363 (809-833): one iteration of the image-only batch loop.
InferBatch ==
    /\ pipeline \in {"norat", "rat"}
    /\ task < FIRST_IMAGE_TEXT_TASK
    /\ pc = "loop"
    /\ LET batch_filenames == Slice(todo, 0, BATCH_SIZE)
           rest == Slice(todo, BATCH_SIZE, Len(todo))
           sent == SelectSeq(batch_filenames, Encodable)
       IN  /\ IF sent = <<>>
              THEN UNCHANGED <<results, ckpt, faults, called, ncalls, nfails, gaveup>>
              ELSE \E outs \in ApiAnswers(batch_filenames) :
                   LET result == process_batch(outs, 0)
                       after == IF Truthy(result)
                                THEN AssignAll(results, BatchTargets(batch_filenames),
                                               result.text)
                                ELSE results
                   IN  /\ results' = after
                       /\ ckpt' = JsonFile(after)
                       /\ faults' = IF outs = UsualApi THEN faults ELSE faults + 1
                       /\ called' = called \cup {get_image_id(sent[i]) : i \in 1..Len(sent)}
                       /\ ncalls' = ncalls + result.calls
                       /\ nfails' = nfails + BatchFails(result)
                       /\ gaveup' = IF result.none THEN gaveup \cup Range(sent) ELSE gaveup
           /\ todo' = rest
           /\ pc' = AfterLoop(rest)
    /\ UNCHANGED <<scope, makedirs, out, runs, snap, ended>>

\* Lines 365-367 (835-837): the final save; the checkpoint file stays.
InferFinalSave ==
    /\ pipeline \in {"norat", "rat"}
    /\ pc = "save"
    /\ out' = JsonFile(results)
    /\ pc' = "done"
    /\ ended' = "saved"
    /\ UNCHANGED <<scope, makedirs, ckpt, results, todo, runs, faults, called, ncalls, nfails, snap, gaveup>>

\* The process is killed inside the checkpoint write of an iteration that
\* issued a remote call (lines 326-327, 362-363; 802-803, 832-833) or of a
\* merge that is due to flush (run_evaluation.py, lines 246-248):
\* open(checkpoint_filename, 'w') has emptied the file and json.dump has
\* not finished.
KillInFlush ==
    /\ pc = "loop"
    /\ IF pipeline = "eval"
       THEN /\ FlushDue(Put(results, Head(todo), Num(DEFAULT_SCORE)))
            /\ called' = called \cup {Head(todo)}
       ELSE LET sent == IF task >= FIRST_IMAGE_TEXT_TASK
                        THEN SelectSeq(<<Head(todo)>>, ItemSendable)
                        ELSE SelectSeq(Slice(todo, 0, BATCH_SIZE), Encodable)
            IN  /\ sent # <<>>
                /\ called' = called \cup {get_image_id(sent[i]) : i \in 1..Len(sent)}
    /\ ncalls' = ncalls + 1
    /\ ckpt' = TornFile
    /\ pc' = "killed"
    /\ ended' = "killed"
    /\ results' = <<>>
    /\ todo' = <<>>
    /\ UNCHANGED <<scope, makedirs, out, runs, faults, nfails, snap, gaveup>>

(***************************************************************************)
(* Initial states.                                                         *)
(***************************************************************************)
\* The inference output file of n items that a run of an inference script
\* for task t left: plain strings, or dicts with Task_t and Rationale_t.
InferenceFile(schema, t, n) ==
    [i \in 1..n |->
        [k |-> StrOfNat(i),
         v |-> IF schema = "str" THEN StrValue(SomeText)
               ELSE DictValue(StrOfNat(i), t, SomeText, SomeText)]]

\* The sizes of the scopes the model runs: a few items, and the sizes at and
\* past the checkpoint period.
ItemCounts ==
    (1..SmallItems) \cup (CHECKPOINT_EVERY..(CHECKPOINT_EVERY + 1))

Img(n) == File(StrOfNat(n), "jpg")

Txt(n) == TextFileOf(StrOfNat(n))

Directory(files, bad, unreadable) ==
    [files |-> files, bad |-> bad, unreadable |-> unreadable]

NoDir == Directory(<<>>, {}, {})

\* The data directories the model runs the inference scripts on.
Directories ==
    { Directory(<<Img(1), Txt(1)>>, {}, {}),
      Directory(<<Img(1), Img(2), Img(10), Txt(1), Txt(10)>>, {}, {}),
      Directory(<<File(<<"1">>, "jpg"), File(<<"1">>, "png"), Txt(1)>>, {}, {}),
      Directory(<<File(<<"a", "1", "b", "2">>, "jpg"), Img(12), Txt(12)>>, {}, {}),
      Directory(<<Img(1), Img(2), Txt(1), Txt(2)>>, {Img(2)}, {}),
      Directory(<<Img(1), Img(2), Txt(1), Txt(2)>>, {}, {Txt(1)}),
      Directory([i \in 1..(BATCH_SIZE + 1) |-> Img(i)], {}, {}) }

\* The language directories the evaluation reads the paired texts from: the
\* text of every item, and for the small scopes also one with the first
\* item's text missing and one with that text unreadable.
EvalDirectories(n) ==
    {Directory([i \in 1..n |-> Txt(i)], {}, {})} \cup
    (IF n <= SmallItems
     THEN { Directory([i \in 1..(n - 1) |-> Txt(i + 1)], {}, {}),
            Directory([i \in 1..n |-> Txt(i)], {}, {Txt(1)}) }
     ELSE {})

InitProcess ==
    /\ makedirs = FALSE
    /\ ckpt = NoFile
    /\ out = NoFile
    /\ pc = "idle"
    /\ results = <<>>
    /\ todo = <<>>
    /\ runs = 0
    /\ faults = 0
    /\ called = {}
    /\ ncalls = 0
    /\ nfails = 0
    /\ ended = "none"
    /\ gaveup = {}
    /\ snap = [ckpt |-> NoFile, out |-> NoFile, prev |-> "none", gaveup |-> {}]

NoInvoker ==
    [fn |-> "none", pc |-> "idle", retry_count |-> 0, calls |-> 0, sleeps |-> 0,
     hist |-> <<>>, value |-> None]

NoDownload == [pc |-> "off"]

NoPool == [pc |-> "off"]

InitEval ==
    /\ pipeline = "eval"
    /\ task \in 1..NUM_TASKS
    /\ \E schema \in {"str", "dict"}, n \in ItemCounts :
          /\ infile = InferenceFile(schema, task, n)
          /\ dir \in EvalDirectories(n)
    /\ config \in {"ok", "no_credential", "no_input"}
    /\ InitProcess
    /\ inv = NoInvoker
    /\ dl = NoDownload
    /\ pool = NoPool

InitInfer ==
    /\ pipeline \in {"norat", "rat"}
    /\ task \in 1..NUM_TASKS
    /\ infile = <<>>
    /\ dir \in Directories
    /\ config \in {"ok", "no_credential", "no_language", "no_task", "no_input"}
    /\ InitProcess
    /\ inv = NoInvoker
    /\ dl = NoDownload
    /\ pool = NoPool

Init == InitEval \/ InitInfer

Next ==
    \/ EvalStart
    \/ EvalMerge
    \/ EvalFinalSave
    \/ EvalRemoveCheckpoint
    \/ InferStart
    \/ InferItem
    \/ InferBatch
    \/ InferFinalSave
    \/ Kill
    \/ KillInFlush

Spec == Init /\ [][Next]_vars

(***************************************************************************)
(* One call of evaluate_one_item or process_batch, attempt by attempt.     *)
(* inv.hist is what the requests made so far brought.                      *)
(***************************************************************************)
RawScores == {-5, 0, 70, 100, 150}

JudgeOutcomes ==
    {NetErr, BadStruct, Unparseable, NonObject}
    \cup {Object(Num(v)) : v \in RawScores}
    \cup {Object(NumStr(60)), Object(NonNumericText), Object(MissingScore),
          Object(NotANumber)}

ApiOutcomes == {ApiError, ApiText(SomeText), ApiText(BlankText), ApiText(RationaleText)}

NoPipeline ==
    /\ pipeline = "none"
    /\ config = "ok"
    /\ task = 1
    /\ infile = <<>>
    /\ dir = NoDir
    /\ InitProcess

InitRetry ==
    /\ NoPipeline
    /\ \E fn \in {"evaluate_one_item", "process_batch"} :
          inv = [NoInvoker EXCEPT !.fn = fn, !.pc = "call"]
    /\ dl = NoDownload
    /\ pool = NoPool

\* Lines 136-162 of run_evaluation.py: the POST and what follows it, up to
\* the return, the exception, or the time.sleep of the retry.
EvaluateAttempt ==
    /\ inv.fn = "evaluate_one_item"
    /\ inv.pc = "call"
    /\ \E o \in JudgeOutcomes :
        LET a == JudgeAttempt(o)
            made == [inv EXCEPT !.calls = @ + 1, !.hist = Append(@, o)]
        IN  inv' =
              CASE a.act = "return" -> [made EXCEPT !.pc = "returned", !.value = a.value]
                [] a.act = "raise" -> [made EXCEPT !.pc = "raised"]
                [] OTHER ->
                     IF inv.retry_count < MAX_RETRIES
                     THEN [made EXCEPT !.pc = "sleep"]
                     ELSE [made EXCEPT !.pc = "returned",
                                       !.value = [score |-> Num(DEFAULT_SCORE)]]
    /\ UNCHANGED <<run, dl, pool>>

\* Lines 216-234 of run_zeroshot_no_rationales.py (699-717 of
\* run_zeroshot_with_rationales.py): the request and what follows it.
BatchAttempt ==
    /\ inv.fn = "process_batch"
    /\ inv.pc = "call"
    /\ \E o \in ApiOutcomes :
        LET made == [inv EXCEPT !.calls = @ + 1, !.hist = Append(@, o)] IN
        inv' =
          IF o.kind = "ok"
          THEN [made EXCEPT !.pc = "returned",
                            !.value = [none |-> FALSE, text |-> Strip(o.text)]]
          ELSE IF inv.retry_count < MAX_RETRIES
          THEN [made EXCEPT !.pc = "sleep"]
          ELSE [made EXCEPT !.pc = "returned", !.value = [none |-> TRUE, text |-> <<>>]]
    /\ UNCHANGED <<run, dl, pool>>

\* A retry that waits twice before it calls again.
RetrySleep_Twice ==
    /\ inv.pc = "sleep"
    /\ inv' = [inv EXCEPT !.pc = "call", !.sleeps = @ + 2, !.retry_count = @ + 1]
    /\ UNCHANGED <<run, dl, pool>>

\* time.sleep(RETRY_DELAY), then the call of itself with retry_count + 1.
RetrySleep ==
    /\ inv.pc = "sleep"
    /\ inv' = [inv EXCEPT !.pc = "call", !.sleeps = @ + 1, !.retry_count = @ + 1]
    /\ UNCHANGED <<run, dl, pool>>

NextRetry == EvaluateAttempt \/ BatchAttempt \/ RetrySleep

SpecRetry == InitRetry /\ [][NextRetry]_vars

(***************************************************************************)
(* The pipeline runs and the invoker calls under the scheduling the code   *)
(* has: a process that is not killed goes on with its loop, its final save *)
(* and its clean-up, and a thread goes on after a request that returned or *)
(* timed out and after time.sleep.  Whether a run is started is left open. *)
(* The scopes are those of up to SmallItems items.                         *)
(***************************************************************************)
\* The scopes of the small sizes, and the calls of the two invokers.
InitLive ==
    \/ Init /\ Len(infile) <= SmallItems /\ Len(dir.files) <= 2 * SmallItems
    \/ InitRetry

RunStep ==
    \/ EvalMerge
    \/ EvalFinalSave
    \/ EvalRemoveCheckpoint
    \/ InferItem
    \/ InferBatch
    \/ InferFinalSave

NextLive == Next \/ NextRetry

SpecLive == InitLive /\ [][NextLive]_vars /\ WF_vars(RunStep) /\ WF_vars(NextRetry)

(***************************************************************************)
(* The text of a judge response, and lines 141-146 of run_evaluation.py:   *)
(* strip(), re.sub of the code fences, json.loads, score_data.get.         *)
(* Numbers are integers in the model.                                      *)
(***************************************************************************)
StartsWith(text, prefix) ==
    Len(prefix) <= Len(text) /\ SubSeq(text, 1, Len(prefix)) = prefix

\* str(v) for an integer v.
StrOfInt(v) == IF v < 0 THEN <<"-">> \o StrOfNat(-v) ELSE StrOfNat(v)

RECURSIVE NatOfStr(_)
NatOfStr(digits) ==
    IF digits = <<>> THEN 0
    ELSE 10 * NatOfStr(SubSeq(digits, 1, Len(digits) - 1)) + DigitValue(digits[Len(digits)])

\* An integer literal: an optional minus sign and one digit or more.
ParseInt(text) ==
    LET digits == IF text # <<>> /\ Head(text) = "-" THEN Tail(text) ELSE text
        ok == digits # <<>> /\ \A i \in 1..Len(digits) : IsDigit(digits[i])
    IN  [ok |-> ok,
         v |-> IF ~ok THEN 0
               ELSE IF Head(text) = "-" THEN -NatOfStr(digits) ELSE NatOfStr(digits)]

\* "tick" stands for the grave accent U+0060; FENCE is three of them.
FENCE == <<"tick", "tick", "tick">>

FENCE_JSON == FENCE \o <<"j", "s", "o", "n">>

\* re.sub(FENCE json \s* | \s* FENCE, "", text): at each position from the
\* left, FENCE_JSON with the whitespace after it, or else a run of whitespace
\* with FENCE after it, is cut out; any other character is kept.
RECURSIVE StripFences(_)
StripFences(text) ==
    IF text = <<>> THEN <<>>
    ELSE IF StartsWith(text, FENCE_JSON)
    THEN StripFences(LStrip(SubSeq(text, Len(FENCE_JSON) + 1, Len(text))))
    ELSE IF StartsWith(LStrip(text), FENCE)
    THEN StripFences(SubSeq(LStrip(text), Len(FENCE) + 1, Len(LStrip(text))))
    ELSE <<Head(text)>> \o StripFences(Tail(text))

SCORE_KEY == <<"\"", "s", "c", "o", "r", "e", "\"">>

JSON_NULL == <<"n", "u", "l", "l">>

JSON_NAN == <<"N", "a", "N">>

\* The value of the score member, from its JSON text.
ScoreMember(text) ==
    LET inner == SubSeq(text, 2, Len(text) - 1) IN
    IF ParseInt(text).ok THEN [ok |-> TRUE, score |-> Num(ParseInt(text).v)]
    ELSE IF text = JSON_NAN THEN [ok |-> TRUE, score |-> NotANumber]
    ELSE IF text = JSON_NULL THEN [ok |-> TRUE, score |-> MissingScore]
    ELSE IF Len(text) >= 2 /\ Head(text) = "\"" /\ text[Len(text)] = "\""
            /\ \A i \in 1..Len(inner) : inner[i] # "\""
    THEN [ok |-> TRUE,
          score |-> IF ParseInt(Strip(inner)).ok THEN NumStr(ParseInt(Strip(inner)).v)
                    ELSE NonNumericText]
    ELSE [ok |-> FALSE, score |-> None]

\* json.loads(text) and score_data.get("score"), for the JSON texts the
\* model knows: a number, null, the empty object, and an object with the
\* one member "score".
JsonLoads(text) ==
    LET t == Strip(text)
        body == Strip(SubSeq(t, 2, Len(t) - 1))
        after_key == LStrip(SubSeq(body, Len(SCORE_KEY) + 1, Len(body)))
        member == ScoreMember(Strip(Tail(after_key)))
    IN  IF ParseInt(t).ok \/ t = JSON_NULL THEN NonObject
        ELSE IF Len(t) < 2 \/ Head(t) # "{" \/ t[Len(t)] # "}" THEN Unparseable
        ELSE IF body = <<>> THEN Object(MissingScore)
        ELSE IF ~StartsWith(body, SCORE_KEY) THEN Unparseable
        ELSE IF after_key = <<>> \/ Head(after_key) # ":" THEN Unparseable
        ELSE IF member.ok THEN Object(member.score)
        ELSE Unparseable

\* Lines 141-148: what the try block does with the text of a response.
JudgeText(text) == JudgeAttempt(JsonLoads(StripFences(Strip(text))))

\* The response texts of the model: a body, bare or inside code fences.
Bodies == {"number", "string", "word", "empty", "bare", "prose"}

Fences == {"none", "json", "plain", "inline"}

BodyText(body, v) ==
    CASE body = "number" -> <<"{">> \o SCORE_KEY \o <<":", " ">> \o StrOfInt(v) \o <<"}">>
      [] body = "string" ->
            <<"{">> \o SCORE_KEY \o <<":", " ", "\"">> \o StrOfInt(v) \o <<"\"", "}">>
      [] body = "word" ->
            <<"{">> \o SCORE_KEY \o <<":", " ", "\"", "h", "i", "g", "h", "\"", "}">>
      [] body = "empty" -> <<"{", "}">>
      [] body = "bare" -> StrOfInt(v)
      [] OTHER -> <<"S", "c", "o", "r", "e", ":", " ">> \o StrOfInt(v)

ResponseText(fence, body, v) ==
    CASE fence = "json" -> FENCE_JSON \o <<"\n">> \o BodyText(body, v) \o <<"\n">> \o FENCE \o <<"\n">>
      [] fence = "plain" -> FENCE \o <<"\n">> \o BodyText(body, v) \o <<"\n">> \o FENCE
      [] fence = "inline" -> FENCE_JSON \o BodyText(body, v) \o FENCE
      [] OTHER -> BodyText(body, v)

RawRange == (SCORE_MIN - MaxOver)..(SCORE_MAX + MaxOver)

\* One response of the judge to one call of evaluate_one_item.
InitScore ==
    /\ NoPipeline
    /\ \E fence \in Fences, body \in Bodies, v \in RawRange :
          inv = [NoInvoker EXCEPT !.fn = "evaluate_one_item", !.pc = "post",
                                  !.hist = <<[fence |-> fence, body |-> body, v |-> v]>>]
    /\ dl = NoDownload
    /\ pool = NoPool

\* Lines 137-162 for a POST that brings the response text of the state.
ScoreResponse ==
    /\ inv.pc = "post"
    /\ LET r == inv.hist[1]
           a == JudgeText(ResponseText(r.fence, r.body, r.v))
       IN  inv' = CASE a.act = "return" ->
                        [inv EXCEPT !.calls = 1, !.pc = "returned", !.value = a.value]
                   [] a.act = "raise" -> [inv EXCEPT !.calls = 1, !.pc = "raised"]
                   [] OTHER -> [inv EXCEPT !.calls = 1, !.pc = "sleep"]
    /\ UNCHANGED <<run, dl, pool>>

NextScore == ScoreResponse \/ RetrySleep

SpecScore == InitScore /\ [][NextScore]_vars

(***************************************************************************)
(* parse_response_and_rationale on one response text.                      *)
(***************************************************************************)
\* The response texts of the model: what stands before the marker, the
\* marker in some spelling or none, and what stands after it.
TextsUpTo(chars, n) == UNION {[1..k -> chars] : k \in 0..n}

MarkerSpellings ==
    { <<>>,
      RATIONALE_MARKER,
      <<"Y", "o", "u", "r", " ", "R", "a", "t", "i", "o", "n", "a", "l", "e", ":">>,
      <<"Y", "O", "U", "R", " ", "R", "A", "T", "I", "O", "N", "A", "L", "E", ":">>,
      <<"y", "o", "u", "r", " ", "r", "a", "t", "i", "o", "n", "a", "l", "e">> }

ResponseTexts ==
    {before \o marker \o after :
        before \in TextsUpTo({"A", " ", "I-dot"}, MaxAffix),
        marker \in MarkerSpellings,
        after \in TextsUpTo({"b", " "}, MaxAffix)
                    \cup {<<" ", "b", " ">> \o RATIONALE_MARKER \o <<"c">>}}

InitParse ==
    /\ NoPipeline
    /\ \E response_text \in ResponseTexts :
          inv = [NoInvoker EXCEPT !.fn = "parse_response_and_rationale", !.pc = "text",
                                  !.hist = <<response_text>>]
    /\ dl = NoDownload
    /\ pool = NoPool

\* Lines 679-693 on the response text of the state.
ParseResponse ==
    /\ inv.pc = "text"
    /\ inv' = [inv EXCEPT !.pc = "parsed",
                          !.value = parse_response_and_rationale(inv.hist[1])]
    /\ UNCHANGED <<run, dl, pool>>

NextParse == ParseResponse

SpecParse == InitParse /\ [][NextParse]_vars

(***************************************************************************)
(* The output file name of the inference scripts and parse_filename of     *)
(* run_evaluation.py.  A name is the sequence of its characters.           *)
(***************************************************************************)
DecimalDigits == <<"0", "1", "2", "3", "4", "5", "6", "7", "8", "9">>

\* str(n) of a natural number.
RECURSIVE str(_)
str(n) ==
    IF n < 10 THEN <<DecimalDigits[n + 1]>>
    ELSE str(n \div 10) \o <<DecimalDigits[(n % 10) + 1]>>

\* int(digits) of a run of decimal digits.
RECURSIVE int(_)
int(digits) ==
    IF digits = <<>> THEN 0
    ELSE 10 * int(SubSeq(digits, 1, Len(digits) - 1))
         + (CHOOSE d \in 0..9 : DecimalDigits[d + 1] = digits[Len(digits)])

\* The positions of the character c in text.
Positions(text, c) == {i \in 1..Len(text) : text[i] = c}

Least(S) == CHOOSE i \in S : \A j \in S : i <= j

Greatest(S) == CHOOSE i \in S : \A j \in S : i >= j

\* text.split(sep) for a separator of one character.
RECURSIVE split(_, _)
split(text, sep) ==
    IF Positions(text, sep) = {} THEN <<text>>
    ELSE LET at == Least(Positions(text, sep))
         IN  <<SubSeq(text, 1, at - 1)>> \o split(SubSeq(text, at + 1, Len(text)), sep)

\* sep.join(parts)
RECURSIVE join(_, _)
join(sep, parts) ==
    IF parts = <<>> THEN <<>>
    ELSE IF Len(parts) = 1 THEN parts[1]
    ELSE parts[1] \o <<sep>> \o join(sep, Tail(parts))

\* os.path.basename: what follows the last "/".
basename(path) ==
    IF Positions(path, "/") = {} THEN path
    ELSE SubSeq(path, Greatest(Positions(path, "/")) + 1, Len(path))

\* os.path.splitext(...)[0]: what stands before the last "." that has a
\* character other than "." before it.
splitext_root(text) ==
    LET dots == {i \in Positions(text, ".") : \E j \in 1..(i - 1) : text[j] # "."}
    IN  IF dots = {} THEN text ELSE SubSeq(text, 1, Greatest(dots) - 1)

\* re.search(r'task(\d+)', name).group(1): the longest run of digits after
\* the leftmost "task" that a digit follows.
TaskGroup(name) ==
    LET starts == {i \in 1..(Len(name) - 4) :
                      /\ SubSeq(name, i, i + 3) = <<"t", "a", "s", "k">>
                      /\ IsDigit(name[i + 4])}
        from == Least(starts) + 4
        upto == Greatest({k \in from..Len(name) : \A j \in from..k : IsDigit(name[j])})
    IN  SubSeq(name, from, upto)

\* Lines 52-61 of run_evaluation.py.
parse_filename(filename) ==
    LET name == splitext_root(basename(filename))
        parts == split(name, "_")
    IN  [model |-> parts[1],
         language |-> parts[2],
         task |-> int(TaskGroup(name)),
         setting |-> join("_", SubSeq(parts, 4, Len(parts)))]

\* Line 263 of run_zeroshot_no_rationales.py and line 746 of
\* run_zeroshot_with_rationales.py: the output file in the output directory.
OutputFilename(args) ==
    <<"o", "/">> \o args.model \o <<"_">> \o args.language \o <<"_", "t", "a", "s", "k">>
        \o str(args.task) \o <<"_">> \o args.setting \o <<".", "j", "s", "o", "n">>

\* --model takes any text: the model names of the model are made of up to
\* MaxPieces of these pieces.
ModelPieces == {<<"m">>, <<"-">>, <<"_">>, <<"t", "a", "s", "k">>, <<"2">>}

RECURSIVE ModelNames(_)
ModelNames(n) ==
    IF n = 1 THEN ModelPieces
    ELSE ModelNames(n - 1) \cup {m \o piece : m \in ModelNames(n - 1), piece \in ModelPieces}

\* Keys of LANGUAGE_CONFIGS.
Languages == {<<"E", "n", "g", "l", "i", "s", "h">>, <<"U", "r", "d", "u">>}

\* The setting each inference script puts in its file name.
Settings == {<<"z", "e", "r", "o", "s", "h", "o", "t", "_", "n", "o", "_", "r", "a", "t", "i", "o", "n", "a", "l", "e", "s">>, <<"z", "e", "r", "o", "s", "h", "o", "t", "_", "w", "i", "t", "h", "_", "r", "a", "t", "i", "o", "n", "a", "l", "e", "s">>}

InitFilename ==
    /\ NoPipeline
    /\ \E model \in ModelNames(MaxPieces), language \in Languages,
          n \in 1..NUM_TASKS, setting \in Settings :
          inv = [NoInvoker EXCEPT
                    !.fn = "parse_filename", !.pc = "args",
                    !.hist = <<[model |-> model, language |-> language,
                                task |-> n, setting |-> setting]>>]
    /\ dl = NoDownload
    /\ pool = NoPool

\* The inference script names its output file.
FormatFilename ==
    /\ inv.fn = "parse_filename"
    /\ inv.pc = "args"
    /\ inv' = [inv EXCEPT !.pc = "file", !.hist = Append(@, OutputFilename(inv.hist[1]))]
    /\ UNCHANGED <<run, dl, pool>>

\* Line 190 of run_evaluation.py: parse_filename on the file.
ParseFilename ==
    /\ inv.fn = "parse_filename"
    /\ inv.pc = "file"
    /\ inv' = [inv EXCEPT !.pc = "parsed", !.value = parse_filename(inv.hist[2])]
    /\ UNCHANGED <<run, dl, pool>>

NextFilename == FormatFilename \/ ParseFilename

SpecFilename == InitFilename /\ [][NextFilename]_vars

(***************************************************************************)
(* The worker pools.                                                       *)
(*                                                                         *)
(* run_evaluation.py, lines 237-248: a ThreadPoolExecutor of MAX_WORKERS   *)
(* threads.  executor.submit queues one future per task; a free thread     *)
(* takes the oldest queued future and runs evaluate_one_item for it; the   *)
(* main thread walks future_to_id in submission order, waits for each      *)
(* future in turn and merges its result.  The futures are all queued in    *)
(* one step: the threads take them in the same order either way.           *)
(*                                                                         *)
(* download_data.py, lines 122-124: a ThreadPoolExecutor of NUM_WORKERS    *)
(* threads runs download_image over download_tasks; the results are None   *)
(* and the futures are counted, not told apart.                            *)
(***************************************************************************)
Future(state, retry_count, value) ==
    [state |-> state, retry_count |-> retry_count, value |-> value]

\* The number of invocations in flight.
InFlight(p) ==
    IF p.kind = "eval"
    THEN Cardinality({i \in 1..Len(p.futures) : p.futures[i].state \in {"running", "sleeping"}})
    ELSE p.running

\* A pool that starts a thread for every queued future.
FreeWorker_Unbounded(p) == TRUE

\* ThreadPoolExecutor(max_workers=W): a thread is free for a queued future.
FreeWorker(p) == InFlight(p) < p.workers

\* future.result() of the first future of the walk: the result of item 1.
FutureResult_First(p, i) == [id |-> p.ids[1], value |-> p.futures[1].value]

\* Line 242: item_id, result = future.result() for the i-th future.
FutureResult(p, i) == [id |-> p.ids[i], value |-> p.futures[i].value]

\* The score the judge gives item i of the pool.
PoolScore(i) == Num(DEFAULT_SCORE + i)

PoolSizes(workers) == (1..SmallItems) \cup {workers + 1}

InitPool ==
    /\ NoPipeline
    /\ inv = NoInvoker
    /\ dl = NoDownload
    /\ \E kind \in {"eval", "download"} :
        \E n \in PoolSizes(IF kind = "eval" THEN MAX_WORKERS ELSE NUM_WORKERS) :
          pool = [kind |-> kind,
                  pc |-> "idle",
                  workers |-> IF kind = "eval" THEN MAX_WORKERS ELSE NUM_WORKERS,
                  ids |-> [i \in 1..n |-> StrOfNat(i)],
                  futures |-> <<>>,
                  merged |-> 0,
                  overtook |-> FALSE,
                  queued |-> 0,
                  running |-> 0,
                  done |-> 0]

\* Line 239: one future per task of tasks_to_run.
PoolSubmit ==
    /\ pool.kind = "eval"
    /\ pool.pc = "idle"
    /\ pool' = [pool EXCEPT !.pc = "collect",
                            !.futures = [i \in 1..Len(pool.ids) |-> Future("queued", 0, None)]]
    /\ UNCHANGED <<run, inv, dl>>

\* A free thread takes the oldest queued future.
WorkerTake ==
    /\ pool.kind = "eval"
    /\ pool.pc = "collect"
    /\ FreeWorker(pool)
    /\ \E i \in 1..Len(pool.futures) :
        /\ pool.futures[i].state = "queued"
        /\ \A j \in 1..(i - 1) : pool.futures[j].state # "queued"
        /\ pool' = [pool EXCEPT !.futures[i].state = "running"]
    /\ UNCHANGED <<run, inv, dl>>

\* Lines 136-162 in a thread: one POST of evaluate_one_item.  It brings
\* the score, or fails; after a failure the thread sleeps, or returns the
\* default score when the retries are used up.
WorkerAttempt ==
    /\ pool.kind = "eval"
    /\ \E i \in 1..Len(pool.futures) :
        /\ pool.futures[i].state = "running"
        /\ LET f == pool.futures[i]
               overtakes == \E j \in 1..(i - 1) : pool.futures[j].state # "done"
               finish(value) ==
                   [pool EXCEPT !.futures[i] = Future("done", f.retry_count, value),
                                !.overtook = @ \/ overtakes]
           IN  \/ /\ pool' = finish([score |-> PoolScore(i)])
                  /\ faults' = faults
               \/ /\ Flaky(pool.ids, pool.ids[i])
                  /\ faults' = faults + 1
                  /\ pool' = IF f.retry_count < MAX_RETRIES
                             THEN [pool EXCEPT !.futures[i].state = "sleeping"]
                             ELSE finish([score |-> Num(DEFAULT_SCORE)])
    /\ UNCHANGED <<pipeline, task, infile, dir, config, makedirs, ckpt, out, pc, results, todo, runs,
                   called, ncalls, nfails, snap, ended, gaveup, inv, dl>>

\* Lines 158-159 in a thread: time.sleep(RETRY_DELAY) ends and the thread
\* calls evaluate_one_item with retry_count + 1.
WorkerWake ==
    /\ pool.kind = "eval"
    /\ \E i \in 1..Len(pool.futures) :
        /\ pool.futures[i].state = "sleeping"
        /\ pool' = [pool EXCEPT !.futures[i].state = "running",
                                !.futures[i].retry_count = @ + 1]
    /\ UNCHANGED <<run, inv, dl>>

\* A main thread that merges the futures as they complete: any future that
\* is done and not merged yet.
PoolMerge_AsCompleted ==
    /\ pool.kind = "eval"
    /\ pool.pc = "collect"
    /\ pool.merged < Len(pool.futures)
    /\ \E i \in 1..Len(pool.futures) :
        /\ pool.futures[i].state = "done"
        /\ ~Has(results, pool.ids[i])
        /\ LET merged == Put(results, pool.ids[i], pool.futures[i].value)
           IN  /\ results' = merged
               /\ ckpt' = IF FlushDue(merged) THEN JsonFile(merged) ELSE ckpt
    /\ pool' = [pool EXCEPT !.merged = @ + 1]
    /\ UNCHANGED <<pipeline, task, infile, dir, config, makedirs, out, pc, todo, runs, faults,
                   called, ncalls, nfails, snap, ended, gaveup, inv, dl>>

\* Lines 241-248 in the main thread: future.result() of the next future of
\* future_to_id returns once that future is done; its result is merged and
\* the checkpoint is written when due.
PoolMerge ==
    /\ pool.kind = "eval"
    /\ pool.pc = "collect"
    /\ pool.merged < Len(pool.futures)
    /\ pool.futures[pool.merged + 1].state = "done"
    /\ LET r == FutureResult(pool, pool.merged + 1)
           merged == Put(results, r.id, r.value)
       IN  /\ results' = merged
           /\ ckpt' = IF FlushDue(merged) THEN JsonFile(merged) ELSE ckpt
    /\ pool' = [pool EXCEPT !.merged = @ + 1]
    /\ UNCHANGED <<pipeline, task, infile, dir, config, makedirs, out, pc, todo, runs, faults,
                   called, ncalls, nfails, snap, ended, gaveup, inv, dl>>

\* Line 248: the walk is over and the executor is shut down.
PoolShutdown ==
    /\ pool.kind = "eval"
    /\ pool.pc = "collect"
    /\ pool.merged = Len(pool.futures)
    /\ pool' = [pool EXCEPT !.pc = "collected"]
    /\ UNCHANGED <<run, inv, dl>>

\* download_data.py, line 124: executor.map queues one call per task.
DownloadSubmit ==
    /\ pool.kind = "download"
    /\ pool.pc = "idle"
    /\ pool' = [pool EXCEPT !.pc = "collect", !.queued = Len(pool.ids)]
    /\ UNCHANGED <<run, inv, dl>>

\* A free thread takes a queued call of download_image.
DownloadTake ==
    /\ pool.kind = "download"
    /\ pool.pc = "collect"
    /\ pool.queued > 0
    /\ FreeWorker(pool)
    /\ pool' = [pool EXCEPT !.queued = @ - 1, !.running = @ + 1]
    /\ UNCHANGED <<run, inv, dl>>

\* A call of download_image returns.
DownloadReturn ==
    /\ pool.kind = "download"
    /\ pool.running > 0
    /\ pool' = [pool EXCEPT !.running = @ - 1, !.done = @ + 1]
    /\ UNCHANGED <<run, inv, dl>>

\* Line 124: list(...) has every result and the executor is shut down.
DownloadShutdown ==
    /\ pool.kind = "download"
    /\ pool.pc = "collect"
    /\ pool.done = Len(pool.ids)
    /\ pool' = [pool EXCEPT !.pc = "collected"]
    /\ UNCHANGED <<run, inv, dl>>

NextPool ==
    \/ PoolSubmit
    \/ WorkerTake
    \/ WorkerAttempt
    \/ WorkerWake
    \/ PoolMerge
    \/ PoolShutdown
    \/ DownloadSubmit
    \/ DownloadTake
    \/ DownloadReturn
    \/ DownloadShutdown

SpecPool == InitPool /\ [][NextPool]_vars

(***************************************************************************)
(* download_data.py: download_image over the download tasks of one         *)
(* language, one call after the other, and the image files it leaves.      *)
(*                                                                         *)
(* What a GET can bring:                                                   *)
(*   "neterr"   requests.exceptions.RequestException                       *)
(*   "valid"    bytes that Image.open and verify accept                    *)
(*   "corrupt"  bytes on which they raise IOError, SyntaxError or          *)
(*              UnidentifiedImageError                                     *)
(*   "other"    bytes on which they raise another exception (for one,      *)
(*              Image.DecompressionBombError)                              *)
(* What writing the file can bring:                                        *)
(*   "written"  all bytes are in the file                                  *)
(*   "noopen"   open() raises: no file is made                             *)
(*   "partial"  write() raises after open() made the file                  *)
(* A file of the store is "absent" or named after the bytes it holds.      *)
(***************************************************************************)
MaxImages == 3

GetOutcomes == {"neterr", "valid", "corrupt", "other"}

WriteOutcomes == {"written", "noopen", "partial"}

\* A record of the dataset split: example.get gives None for a column the
\* record lacks; the model writes None as "" for the url and 0 for the id.
Record(image_url, unique_id) == [image_url |-> image_url, id |-> unique_id]

\* The splits the model downloads: n records with the ids 1..n, of which
\* at most one lacks its image_url or its id.
Splits(n) ==
    {[p \in 1..n |-> Record(IF p = m /\ column = "image_url" THEN "" ELSE "url",
                            IF p = m /\ column = "id" THEN 0 ELSE p)] :
        m \in 0..n, column \in {"image_url", "id"}}

\* Lines 99-114 of main: one task per record that has an image_url and an
\* id, for the save path of its id; the other records are skipped.
DownloadTasks(records) ==
    LET Complete(example) == example.image_url # "" /\ example.id # 0
        kept == SelectSeq(records, Complete)
    IN  [i \in 1..Len(kept) |-> kept[i].id]

InitDownload ==
    /\ NoPipeline
    /\ inv = NoInvoker
    /\ \E n \in 1..MaxImages : \E records \in Splits(n) :
          dl = [pc |-> "idle",
                records |-> records,
                files |-> [p \in 1..n |-> "absent"],
                tasks |-> <<>>,
                path |-> 0,
                existed |-> FALSE,
                requests |-> 0,
                content |-> "none",
                verified |-> FALSE,
                how |-> "none",
                runs |-> 0]
    /\ pool = NoPool

\* main: the pool runs download_image on the download tasks.
DownloadStart ==
    /\ dl.pc \in {"idle", "finished"}
    /\ dl.runs < MaxRuns
    /\ dl' = [dl EXCEPT !.pc = "next",
                        !.tasks = DownloadTasks(dl.records),
                        !.runs = @ + 1]
    /\ UNCHANGED <<run, inv, pool>>

\* download_image without the test of lines 39-40.
DownloadEnter_NoSkip ==
    /\ dl.pc \in {"next", "returned"}
    /\ dl.tasks # <<>>
    /\ dl' = [dl EXCEPT !.tasks = Tail(@),
                        !.path = Head(dl.tasks),
                        !.existed = dl.files[Head(dl.tasks)] # "absent",
                        !.requests = 0,
                        !.content = "none",
                        !.verified = FALSE,
                        !.how = "none",
                        !.pc = "get"]
    /\ UNCHANGED <<run, inv, pool>>

\* Lines 36-40: the call of download_image for the next task; it returns at
\* once when the save path exists.
DownloadEnter ==
    /\ dl.pc \in {"next", "returned"}
    /\ dl.tasks # <<>>
    /\ LET save_path == Head(dl.tasks)
           exists == dl.files[save_path] # "absent"
       IN  dl' = [dl EXCEPT !.tasks = Tail(@),
                            !.path = save_path,
                            !.existed = exists,
                            !.requests = 0,
                            !.content = "none",
                            !.verified = FALSE,
                            !.how = IF exists THEN "exists" ELSE "none",
                            !.pc = IF exists THEN "returned" ELSE "get"]
    /\ UNCHANGED <<run, inv, pool>>

\* Lines 44-45 and 61-63: requests.get and raise_for_status.
DownloadGet ==
    /\ dl.pc = "get"
    /\ \E o \in GetOutcomes :
        dl' = IF o = "neterr"
              THEN [dl EXCEPT !.requests = @ + 1, !.how = "neterr", !.pc = "returned"]
              ELSE [dl EXCEPT !.requests = @ + 1, !.content = o, !.pc = "write"]
    /\ UNCHANGED <<run, inv, pool>>

\* Lines 48-49 and 64-66: the file is written; an error of open or write is
\* caught by except Exception, which prints a warning and nothing else.
DownloadWrite ==
    /\ dl.pc = "write"
    /\ \E w \in WriteOutcomes :
        dl' = CASE w = "written" ->
                     [dl EXCEPT !.files[dl.path] = dl.content, !.pc = "verify"]
                [] w = "noopen" ->
                     [dl EXCEPT !.how = "error", !.pc = "returned"]
                [] OTHER ->
                     [dl EXCEPT !.files[dl.path] = "partial", !.how = "error",
                                !.pc = "returned"]
    /\ UNCHANGED <<run, inv, pool>>

\* Lines 53-59 and 64-66: Image.open and verify; the file is removed on the
\* three exceptions the inner except names, and stays on any other.
DownloadVerify ==
    /\ dl.pc = "verify"
    /\ dl' = CASE dl.files[dl.path] = "valid" ->
                    [dl EXCEPT !.verified = TRUE, !.how = "kept", !.pc = "returned"]
               [] dl.files[dl.path] = "corrupt" ->
                    [dl EXCEPT !.files[dl.path] = "absent", !.how = "removed",
                               !.pc = "returned"]
               [] OTHER ->
                    [dl EXCEPT !.how = "error", !.pc = "returned"]
    /\ UNCHANGED <<run, inv, pool>>

\* The pool has run every task.
DownloadFinish ==
    /\ dl.pc \in {"next", "returned"}
    /\ dl.tasks = <<>>
    /\ dl' = [dl EXCEPT !.pc = "finished"]
    /\ UNCHANGED <<run, inv, pool>>

NextDownload ==
    \/ DownloadStart
    \/ DownloadEnter
    \/ DownloadGet
    \/ DownloadWrite
    \/ DownloadVerify
    \/ DownloadFinish

SpecDownload == InitDownload /\ [][NextDownload]_vars

(***************************************************************************)
(* download_image run by several threads of the pool for one save path:    *)
(* records of one split with the same id.  Each line of download_image     *)
(* that touches the file system or the network is one step.                *)
(*   dl.file   what is at the save path: "absent", "empty" (open(..., 'wb') *)
(*             has truncated it), "valid", "corrupt", or "mixed" (a write  *)
(*             at offset 0 over longer bytes of another thread)            *)
(*   fd        "open" from open() to the end of the with block; "orphan"   *)
(*             when the path was removed meanwhile (POSIX unlink)          *)
(***************************************************************************)
Racer(at, content, desc, wrote, how) ==
    [pc |-> at, content |-> content, fd |-> desc, wrote |-> wrote, how |-> how]

\* The except clauses of lines 57 and 61-66 in the order Python tries them.
\* FileNotFoundError and PermissionError are OSError, which IOError names.
InnerCatches(exc) ==
    exc \in {"FileNotFoundError", "PermissionError", "UnidentifiedImageError",
             "SyntaxError"}

\* An outer handler that names the network errors only.
OuterCatches_RequestOnly(exc) == exc = "RequestException"

\* Lines 61 and 64: except requests.exceptions.RequestException, then
\* except Exception.
OuterCatches(exc) == exc = "RequestException" \/ TRUE

\* Where a thread is after an exception inside the outer try block.
AfterRaise(exc) == IF OuterCatches(exc) THEN "returned" ELSE "raised"

InitRace ==
    /\ NoPipeline
    /\ inv = NoInvoker
    /\ pool = NoPool
    /\ \E file \in {"absent", "valid", "corrupt"} :
          dl = [pc |-> "race",
                file |-> file,
                w |-> [i \in 1..MaxSameId |-> Racer("check", "none", "none", FALSE, "none")]]

\* Lines 39-40: os.path.exists(save_path).
RaceCheck(i) ==
    /\ dl.w[i].pc = "check"
    /\ dl' = IF dl.file # "absent"
             THEN [dl EXCEPT !.w[i].pc = "returned", !.w[i].how = "exists"]
             ELSE [dl EXCEPT !.w[i].pc = "get"]

\* Lines 44-45: requests.get and raise_for_status.
RaceGet(i) ==
    /\ dl.w[i].pc = "get"
    /\ \E o \in GetOutcomes :
        dl' = IF o = "neterr"
              THEN [dl EXCEPT !.w[i].pc = AfterRaise("RequestException"),
                              !.w[i].how = "neterr"]
              ELSE [dl EXCEPT !.w[i].pc = "open", !.w[i].content = o]

\* Line 48: open(save_path, 'wb') creates the file or truncates it.
RaceOpen(i) ==
    /\ dl.w[i].pc = "open"
    /\ dl' = [dl EXCEPT !.file = "empty", !.w[i].pc = "write", !.w[i].fd = "open"]

\* Line 49 and the end of the with block: the bytes are written at offset
\* 0 of the file the descriptor is open on, and the file is closed.  Over
\* bytes another thread wrote since the open, the result is the new bytes
\* or, when they are shorter, a mix of both.
RaceWrite(i) ==
    /\ dl.w[i].pc = "write"
    /\ \E file \in IF dl.w[i].fd = "orphan" THEN {dl.file}
                    ELSE IF dl.file = "empty" THEN {dl.w[i].content}
                    ELSE {dl.w[i].content, "mixed"} :
        dl' = [dl EXCEPT !.file = file, !.w[i].pc = "verify", !.w[i].fd = "none",
                         !.w[i].wrote = TRUE]

\* Lines 53-56: Image.open(save_path) and img.verify().
RaceVerify(i) ==
    /\ dl.w[i].pc = "verify"
    /\ LET exc == CASE dl.file = "absent" -> "FileNotFoundError"
                     [] dl.file = "valid" -> "none"
                     [] dl.file = "other" -> "OtherError"
                     [] OTHER -> "UnidentifiedImageError"
       IN  dl' = IF exc = "none"
                 THEN [dl EXCEPT !.w[i].pc = "returned", !.w[i].how = "kept"]
                 ELSE IF InnerCatches(exc)
                 THEN [dl EXCEPT !.w[i].pc = "remove"]
                 ELSE [dl EXCEPT !.w[i].pc = AfterRaise(exc), !.w[i].how = "error"]

\* Line 60: os.remove(save_path) inside the inner handler.  It raises when
\* the file is gone, and where an open file cannot be removed (Windows) when
\* another thread has it open; where it can (POSIX) that thread's
\* descriptor stays on the removed file.
RaceRemove(i) ==
    /\ dl.w[i].pc = "remove"
    /\ LET held == \E j \in 1..MaxSameId : j # i /\ dl.w[j].fd = "open"
           unlink == [dl EXCEPT !.file = "absent",
                                !.w = [j \in 1..MaxSameId |->
                                         IF j = i
                                         THEN [dl.w[j] EXCEPT !.pc = "returned",
                                                              !.how = "removed"]
                                         ELSE IF dl.w[j].fd = "open"
                                         THEN [dl.w[j] EXCEPT !.fd = "orphan"]
                                         ELSE dl.w[j]]]
           raise(exc) == [dl EXCEPT !.w[i].pc = AfterRaise(exc), !.w[i].how = "error"]
       IN  IF dl.file = "absent"
           THEN dl' = raise("FileNotFoundError")
           ELSE \/ dl' = unlink
                \/ held /\ dl' = raise("PermissionError")

NextRace ==
    /\ \E i \in 1..MaxSameId :
          \/ RaceCheck(i)
          \/ RaceGet(i)
          \/ RaceOpen(i)
          \/ RaceWrite(i)
          \/ RaceVerify(i)
          \/ RaceRemove(i)
    /\ UNCHANGED <<run, inv, pool>>

SpecRace == InitRace /\ [][NextRace]_vars

(***************************************************************************)
(* Properties of one invoker call (specification SpecRetry).               *)
(***************************************************************************)
\* The attempt brought no result: no score (judge), no text (inference).
AttemptFailed(o) ==
    IF inv.fn = "evaluate_one_item" THEN JudgeAttempt(o).act # "return"
    ELSE o.kind # "ok"

\* What the call returns for an attempt that brought a result.
SuccessValue(o) ==
    IF inv.fn = "evaluate_one_item" THEN JudgeAttempt(o).value
    ELSE [none |-> FALSE, text |-> Strip(o.text)]

\* The terminal fallback: the score 50 (judge), None (inference).
Fallback ==
    IF inv.fn = "evaluate_one_item" THEN [score |-> Num(DEFAULT_SCORE)]
    ELSE [none |-> TRUE, text |-> <<>>]

InvokerEnded == inv.pc \in {"returned", "raised"}

\* C1: the remote endpoint is invoked at most MAX_RETRIES + 1 times; when
\* the first MAX_RETRIES attempts fail and the next one succeeds, its result
\* is returned; when MAX_RETRIES + 1 attempts fail, the fallback is returned.
C1_RetryBudget ==
    /\ inv.calls <= MAX_RETRIES + 1
    /\ (/\ InvokerEnded
        /\ Len(inv.hist) = MAX_RETRIES + 1
        /\ \A i \in 1..MAX_RETRIES : AttemptFailed(inv.hist[i])
        /\ ~AttemptFailed(inv.hist[MAX_RETRIES + 1]))
       => (inv.pc = "returned" /\ inv.value = SuccessValue(inv.hist[MAX_RETRIES + 1]))
    /\ (/\ InvokerEnded
        /\ Len(inv.hist) = MAX_RETRIES + 1
        /\ \A i \in 1..(MAX_RETRIES + 1) : AttemptFailed(inv.hist[i]))
       => (inv.pc = "returned" /\ inv.value = Fallback)

\* A response that carries no score: its text is no JSON, or is JSON without
\* a score member (no object, or an object without the key or with null),
\* or the score member is a string that is no number.
NoScore(o) ==
    \/ o.kind \in {"unparseable", "nonobject"}
    \/ o.kind = "object" /\ o.score.t \in {"missing", "text"}

\* C13: a judge response without a numeric score is never accepted.  The
\* attempt that brought it is followed by a retry while the budget lasts,
\* and by the return of the default score when it was the last attempt.
C13_NoScoreRetried ==
    inv.fn = "evaluate_one_item" =>
        \A i \in 1..Len(inv.hist) :
            NoScore(inv.hist[i]) =>
                IF i <= MAX_RETRIES
                THEN inv.pc = "sleep" \/ inv.retry_count >= i
                ELSE inv.pc = "returned" /\ inv.value = [score |-> Num(DEFAULT_SCORE)]

(***************************************************************************)
(* Properties of one judge response (specification SpecScore).             *)
(***************************************************************************)
Clamp(s) ==
    IF s < SCORE_MIN THEN SCORE_MIN ELSE IF s > SCORE_MAX THEN SCORE_MAX ELSE s

\* C14: for a numeric score s, clip_score gives max(0, min(100, s)), and a
\* response with that score, bare or inside code fences, returns it; for a
\* score that is no number clip_score gives None and the response returns
\* no number.
C14_ClipScore ==
    LET r == inv.hist[1] IN
    /\ clip_score(Num(r.v)) = Num(Clamp(r.v))
    /\ clip_score(NonNumericText) = None
    /\ clip_score(MissingScore) = None
    /\ (inv.pc \in {"returned", "raised", "sleep"} /\ r.body \in {"number", "string"})
          => (inv.pc = "returned" /\ inv.value = [score |-> Num(Clamp(r.v))])
    /\ (inv.pc \in {"returned", "raised", "sleep"} /\ r.body \in {"word", "empty"})
          => (inv.pc = "sleep" /\ inv.value = None)

\* C14 witness: the response with the score 150 inside json code fences has
\* returned the score 100.
C14_Witness ==
    /\ inv.hist[1] = [fence |-> "json", body |-> "number", v |-> SCORE_MAX + MaxOver]
    /\ inv.pc = "returned"
    /\ inv.value = [score |-> Num(SCORE_MAX)]

C17_BoundedParallelism ==
    /\ pool.kind = "eval" => InFlight(pool) <= MAX_WORKERS
    /\ pool.kind = "download" => InFlight(pool) <= NUM_WORKERS

\* C17 witness: MAX_WORKERS calls of evaluate_one_item are in flight and a
\* future is still queued.
C17_Witness ==
    /\ pool.kind = "eval"
    /\ InFlight(pool) = MAX_WORKERS
    /\ \E i \in 1..Len(pool.futures) : pool.futures[i].state = "queued"

\* The same for the download: NUM_WORKERS calls of download_image are in
\* flight and a call is still queued.
C17_WitnessDownload ==
    /\ pool.kind = "download"
    /\ InFlight(pool) = NUM_WORKERS
    /\ pool.queued > 0

\* C18: results are collected as they complete.  The dispatcher never waits
\* for an unfinished future while a future submitted after it is done and
\* not merged.
C18_CollectedAsCompleted ==
    (pool.kind = "eval" /\ pool.pc = "collect" /\ pool.merged < Len(pool.futures))
        => ~(/\ pool.futures[pool.merged + 1].state # "done"
             /\ \E b \in (pool.merged + 2)..Len(pool.futures) :
                    pool.futures[b].state = "done")

(***************************************************************************)
(* Properties of the download (specification SpecDownload).                *)
(***************************************************************************)
\* C9: an item given up after a network failure was requested
\* MAX_RETRIES + 1 times, and no file is left at its save path.
C9_DownloadRetried ==
    (dl.pc = "returned" /\ dl.how = "neterr") =>
        (dl.requests = MAX_RETRIES + 1 /\ dl.files[dl.path] = "absent")

\* C10: when download_image returns for a save path that did not exist on
\* entry, a file is at the path only if its bytes passed the validation, and
\* the download was requested once at most.
C10_DownloadValidity ==
    (dl.pc = "returned" /\ ~dl.existed) =>
        /\ dl.files[dl.path] # "absent" => dl.verified
        /\ dl.requests <= 1

\* The step is a call of download_image for a save path that exists.
EnterExisting ==
    /\ dl.pc \in {"next", "returned"}
    /\ dl.tasks # <<>>
    /\ dl'.tasks = Tail(dl.tasks)
    /\ dl.files[Head(dl.tasks)] # "absent"

\* C36: a call of download_image for a save path at which a file exists
\* returns at once, with no request made and every file as it was, whatever
\* the file holds; so a request is only ever made for a path with no file.
C36_RestartSkip ==
    /\ [](dl.existed => dl.requests = 0 /\ dl.pc \in {"returned", "finished", "next"})
    /\ [][/\ EnterExisting =>
               (dl'.pc = "returned" /\ dl'.requests = 0 /\ dl'.files = dl.files)
          /\ dl'.requests > dl.requests => dl.files[dl.path] = "absent"]_vars

\* C36 witness: in a second run download_image was called for a path at
\* which the first run left a partly written file, and has returned.
C36_Witness ==
    /\ dl.runs = 2
    /\ dl.pc = "returned"
    /\ dl.existed
    /\ dl.files[dl.path] = "partial"

\* C36 witness: in a second run a request is made for a path whose file the
\* first run removed, after a call for a path with a file was skipped.
C36_WitnessRequest ==
    /\ dl.runs = 2
    /\ dl.requests = 1
    /\ dl.path > 1
    /\ dl.files[1] # "absent"

(***************************************************************************)
(* Properties of the pipeline runs (specification Spec).                   *)
(***************************************************************************)
\* The ids of the work items of the scope.
ItemIds ==
    IF pipeline = "eval" THEN Keys(infile)
    ELSE {get_image_id(f) : f \in {g \in Range(dir.files) : IsImageFile(g)}}

\* The run ended by its final save.
Saved == pc = "done" /\ ended = "saved"

\* Every entry of the mapping d is an entry of the mapping e, same value.
Within(d, e) == \A i \in 1..Len(d) : Has(e, d[i].k) /\ Get(e, d[i].k) = d[i].v

\* C2: after a run of any of the three pipelines that reached its final
\* save, the checkpoint file does not exist and the output file holds every
\* item of the in-memory result mapping.
C2_NoCheckpointAfterFinalSave ==
    Saved => (~ckpt.exists /\ out.exists /\ Within(results, out.data))

\* C3: every run that ends without a fatal error has written the complete
\* result mapping to the output path as its last step, also a run that found
\* every item in the checkpoint.
C3_FinalizationUnconditional ==
    pc = "done" => (out.exists /\ out.data = results)

\* C4: a run that starts in state COMPLETE (after a successful run of the
\* same scope, the output file in place and the checkpoint absent) makes no
\* remote call and leaves the output file as it was.
C4_CompleteRunIsNoop ==
    (snap.prev = "saved" /\ snap.out.exists /\ ~snap.ckpt.exists)
        => (ncalls = 0 /\ out = snap.out)

\* C5: a second run in a row, once it has ended, leaves the output file the
\* first run left.
C5_Idempotent ==
    (snap.prev \in {"saved", "noop"} /\ pc = "done") => out = snap.out

\* C6: a run that starts from a checkpoint holding the items P calls the
\* remote endpoint for no id of P, and its final output gives every id of P
\* the result the checkpoint gave it.
C6_Resumable ==
    /\ called \cap Keys(snap.ckpt.data) = {}
    /\ Saved => Within(snap.ckpt.data, out.data)

\* C6 witness: a run resumed after a kill, from a checkpoint holding a
\* strict and non-empty subset of the items, has called the endpoint and
\* ended by its final save (the evaluation pipeline).
C6_Witness ==
    /\ pipeline = "eval"
    /\ snap.prev = "killed"
    /\ snap.ckpt.exists
    /\ Keys(snap.ckpt.data) # {}
    /\ Keys(snap.ckpt.data) \subseteq ItemIds
    /\ Keys(snap.ckpt.data) # ItemIds
    /\ called = ItemIds \ Keys(snap.ckpt.data)
    /\ Saved

\* The same for an inference run.
C6_WitnessInference ==
    /\ pipeline \in {"norat", "rat"}
    /\ snap.prev = "killed"
    /\ Keys(snap.ckpt.data) # {}
    /\ Keys(snap.ckpt.data) # ItemIds
    /\ called = ItemIds \ Keys(snap.ckpt.data)
    /\ Saved

\* C11: an entry is written once.  No step of a run changes the value an id
\* has in the result mapping, and no step of any run changes the value an id
\* has in the checkpoint file, whatever the image file names are.
C11_EntryWrittenOnce ==
    [][/\ (pc = "loop" /\ pc' \in {"loop", "save"}) => Within(results, results')
       /\ (ckpt.exists /\ ckpt.valid /\ ckpt'.exists /\ ckpt'.valid)
             => Within(ckpt.data, ckpt'.data)]_vars

\* The ids of a set of image files.
IdsOf(files) == {get_image_id(f) : f \in files}

\* C12: a file whose remote call failed on all MAX_RETRIES + 1 attempts has
\* no entry in the result mapping, the checkpoint or the output of its run,
\* and the next run on the scope, once its loop has ended, has called the
\* remote endpoint for it again.
C12_GivenUpRetriedNextRun ==
    /\ (pipeline \in {"norat", "rat"} /\ pc \in {"loop", "save", "done"})
          => /\ IdsOf(gaveup) \cap Keys(results) = {}
             /\ ckpt.valid => IdsOf(gaveup) \cap Keys(ckpt.data) = {}
             /\ Saved => IdsOf(gaveup) \cap Keys(out.data) = {}
    /\ (pipeline \in {"norat", "rat"} /\ pc \in {"save", "done"}
          /\ snap.prev \in {"saved", "killed"})
          => IdsOf(snap.gaveup) \subseteq called

\* C19: in the inference pipelines, once an iteration of the run has issued
\* a remote call, the checkpoint file equals the in-memory result mapping
\* after every iteration; and a kill of the process costs no more than the
\* iteration in progress: every entry the checkpoint file held before the
\* kill is in the checkpoint file after it.
C19_InferenceFlush ==
    /\ []((pipeline \in {"norat", "rat"} /\ pc \in {"loop", "save", "done"} /\ ncalls > 0)
            => ckpt = JsonFile(results))
    /\ [][(pipeline \in {"norat", "rat"} /\ pc = "loop" /\ pc' = "killed"
            /\ ckpt.exists /\ ckpt.valid /\ ckpt.data # <<>>)
            => (ckpt'.valid /\ Within(ckpt.data, ckpt'.data))]_vars

\* The ids the result mapping holds and the checkpoint file does not.
Unflushed == Keys(results) \ Keys(ckpt.data)

\* C20: at every point of the dispatch loop of the evaluation pipeline fewer
\* than CHECKPOINT_EVERY merged results are absent from the checkpoint file,
\* and a run over fewer than CHECKPOINT_EVERY items writes no checkpoint.
C20_ScoringFlushBound ==
    (pipeline = "eval" /\ pc \in {"loop", "save"}) =>
        /\ Cardinality(Unflushed) <= CHECKPOINT_EVERY - 1
        /\ Len(infile) < CHECKPOINT_EVERY => ~ckpt.exists

\* C20 witness: the dispatch loop holds CHECKPOINT_EVERY - 1 results that
\* are not in the checkpoint file.
C20_Witness ==
    /\ pipeline = "eval"
    /\ pc = "loop"
    /\ Cardinality(Unflushed) = CHECKPOINT_EVERY - 1

\* C21: in the evaluation pipeline the checkpoint is removed only after the
\* output file holds the result mapping; a kill between the two steps
\* leaves both files as they are; and a run that ends after such a kill
\* leaves an output file with one entry for every item id of the inference
\* file and no other entry.
C21_SaveBeforeRemove ==
    /\ []((pipeline = "eval" /\ pc = "rmckpt") => out = JsonFile(results))
    /\ []((pipeline = "eval" /\ snap.prev = "killed" /\ snap.out.exists /\ pc = "done")
            => (Keys(out.data) = Keys(infile) /\ Len(out.data) = Len(infile)))
    /\ [][(pipeline = "eval" /\ pc = "rmckpt" /\ pc' = "killed")
            => (ckpt' = ckpt /\ out' = out)]_vars

\* C21 witness: the first run was killed after its final save with the
\* checkpoint in place, and the second run has resumed from it and ended
\* by its own final save.
C21_Witness ==
    /\ pipeline = "eval"
    /\ runs = 2
    /\ snap.prev = "killed"
    /\ snap.out.exists
    /\ snap.ckpt.exists
    /\ called # {}
    /\ Saved

\* The image files of the scope, and the number of its work items.
ImageFiles == {f \in Range(dir.files) : IsImageFile(f)}

WorkItemCount == IF pipeline = "eval" THEN Len(infile) ELSE Cardinality(ImageFiles)

\* Every work item can be sent: its files are there and can be read.
AllSendable ==
    pipeline = "eval"
    \/ \A f \in ImageFiles :
          IF task >= FIRST_IMAGE_TEXT_TASK THEN ItemSendable(f) ELSE Encodable(f)

\* C22: a run that starts without a checkpoint, in which every one of the n
\* work items gets its result within the retry budget, ends with n entries
\* in the output, no checkpoint file, and n remote calls plus one for every
\* failed attempt.
C22_CallCount ==
    (Saved /\ ~snap.ckpt.exists /\ AllSendable /\ gaveup = {}) =>
        /\ Len(out.data) = WorkItemCount
        /\ ~ckpt.exists
        /\ ncalls = WorkItemCount + nfails

\* The work items a started run has left to handle: item ids in the
\* evaluation, image files in the inference scripts.
Remaining(loaded) ==
    IF pipeline = "eval" THEN Keys(infile) \ Keys(loaded)
    ELSE {f \in ImageFiles : get_image_id(f) \notin Keys(loaded)}

\* C23: a run that starts keeps exactly the work items whose id, a string,
\* is not a key of the checkpoint; when none is left the run reports that
\* the scope is complete, leaves the files alone and makes no remote call.
C23_ResumabilityFilter ==
    /\ [][(runs' = runs + 1 /\ pc' \in {"loop", "done"}) =>
            /\ Range(todo') = Remaining(LoadCheckpoint(ckpt))
            /\ Len(todo') = Cardinality(Remaining(LoadCheckpoint(ckpt)))
            /\ (Remaining(LoadCheckpoint(ckpt)) = {}) =>
                  (pc' = "done" /\ ended' = "noop" /\ ckpt' = ckpt /\ out' = out)]_vars
    /\ [](ended = "noop" => (pc = "done" /\ ncalls = 0 /\ called = {}))

C23_Witness ==
    /\ ended = "noop"
    /\ runs = 2
    /\ Keys(snap.ckpt.data) = ItemIds
    /\ Cardinality(ItemIds) > 1
    /\ ncalls = 0

\* The files of a list are in ascending order of their numeric identifier.
NumericOrder(files) ==
    \A i, j \in 1..Len(files) :
        i < j => NatOfStr(get_image_id(files[i])) <= NatOfStr(get_image_id(files[j]))

\* C24: the inference scripts go through the image files in ascending order
\* of their numeric identifier, and in the same order whatever the order of
\* the directory listing.
C24_EnumerationOrder ==
    /\ []((pipeline \in {"norat", "rat"} /\ pc = "loop") => NumericOrder(todo))
    /\ [][(pipeline \in {"norat", "rat"} /\ runs' = runs + 1 /\ pc' = "loop") =>
            todo' = FilesToProcess(AllFiles(dir.files), LoadCheckpoint(ckpt))]_vars

\* The paired text file of an item is missing or cannot be read.
TextMissing(image_id) ==
    \/ TextFileOf(image_id) \notin Range(dir.files)
    \/ TextFileOf(image_id) \in dir.unreadable

\* The item ids a run on a scope with paired texts can send.
SendableIds ==
    IF pipeline = "eval" THEN {k \in Keys(infile) : ~TextMissing(k)}
    ELSE {get_image_id(f) : f \in {g \in ImageFiles : ItemSendable(g)}}

\* C25: in the evaluation and in the image-text inference (tasks 6-8) an
\* item whose paired text file is missing or unreadable gets no remote call
\* and no result entry, and a run that ends by its final save has handled
\* every other item.
C25_MissingTextDropped ==
    (pipeline = "eval" \/ task >= FIRST_IMAGE_TEXT_TASK) =>
        /\ \A id \in ItemIds :
              TextMissing(id) =>
                  /\ id \notin called
                  /\ ~Has(results, id)
                  /\ ~Has(ckpt.data, id)
                  /\ ~Has(out.data, id)
        /\ (Saved /\ ~snap.ckpt.exists) => SendableIds \subseteq called

\* C26: a run that finds no checkpoint file starts from the empty mapping;
\* a run that finds a checkpoint file that holds no JSON fails at once: it
\* makes no remote call, changes neither the checkpoint nor the output
\* file, and nothing follows it but the start of another run.
C26_CheckpointLoad ==
    /\ [][(runs' = runs + 1) =>
            /\ (~ckpt.exists) =>
                  /\ results' = <<>>
                  /\ pc' \in {"loop", "done"} => Range(todo') = Remaining(<<>>)
            /\ (ckpt.exists /\ ~ckpt.valid) =>
                  /\ pc' = "failed"
                  /\ todo' = <<>>
                  /\ ncalls' = 0
                  /\ ckpt' = ckpt
                  /\ out' = out]_vars
    /\ []((pc = "failed" /\ snap.ckpt.exists /\ ~snap.ckpt.valid) =>
            (ncalls = 0 /\ called = {} /\ ckpt = snap.ckpt /\ out = snap.out))
    /\ [][(pc = "failed") => (runs' = runs + 1)]_vars

C26_Witness ==
    /\ pc = "failed"
    /\ snap.ckpt = TornFile
    /\ snap.prev = "killed"
    /\ ncalls = 0

C26_WitnessEvaluation == C26_Witness /\ pipeline = "eval"

\* The scope cannot be run as configured: a credential, the input or a
\* language or task key is missing, or the task has no judge instruction.
ConfigFailure ==
    \/ config # "ok"
    \/ pipeline = "eval" /\ task \notin TASK_INSTRUCTIONS

\* C27: a run on a scope with a configuration failure ends by a printed
\* error and a return, with no exception, before any remote call, and
\* creates no directory, checkpoint or output.
C27_ConfigFailureClean ==
    (pipeline \in {"eval", "norat", "rat"} /\ ConfigFailure) =>
        /\ pc \in {"idle", "refused"}
        /\ runs > 0 => ended = "refused"
        /\ ncalls = 0
        /\ called = {}
        /\ ~makedirs
        /\ ~ckpt.exists
        /\ ~out.exists

\* The least 0-based index of the text at which the marker stands in some
\* mix of upper and lower case, or -1.
FirstMarker(text) ==
    LET n == Len(RATIONALE_MARKER)
        At(i) == i + n <= Len(text) /\ Lower(SubSeq(text, i + 1, i + n)) = RATIONALE_MARKER
        hits == {i \in 0..Len(text) : At(i)}
    IN  IF hits = {} THEN -1 ELSE CHOOSE i \in hits : \A j \in hits : i <= j

\* C28: parse_response_and_rationale gives the trimmed text before the first
\* marker, in any case, as analysis and the trimmed text after it as
\* rationale, both as the response spells them; without a marker it gives
\* the whole trimmed text and the sentinel.
C28_RationaleSplit ==
    (inv.fn = "parse_response_and_rationale" /\ inv.pc = "parsed") =>
        LET text == inv.hist[1]
            i == FirstMarker(text)
        IN  inv.value =
              IF i >= 0
              THEN [analysis |-> Strip(SubSeq(text, 1, i)),
                    rationale |-> Strip(SubSeq(text, i + Len(RATIONALE_MARKER) + 1,
                                               Len(text)))]
              ELSE [analysis |-> Strip(text), rationale |-> NO_RATIONALE]

\* The response an entry of the result mapping records.
ResponseOf(value) ==
    IF value.type = "str" THEN <<value.text>> ELSE <<value.analysis, value.rationale>>

\* The images of the batch the loop is about to handle, and those of them
\* that go into the request.
BatchFiles == Range(Slice(todo, 0, BATCH_SIZE))

BatchSent == {f \in BatchFiles : Encodable(f)}

\* The step is an iteration of the image-only batch loop that issued its
\* remote call and went on.
BatchStep ==
    /\ pipeline \in {"norat", "rat"}
    /\ task < FIRST_IMAGE_TEXT_TASK
    /\ pc = "loop"
    /\ pc' \in {"loop", "save"}
    /\ ncalls' > ncalls

\* C29: in the image-only batch loop, a batch whose remote call succeeds
\* gives every image that was sent an entry with the same response, and a
\* batch whose call fails through the retry budget gives no image of the
\* batch an entry.
C29_BatchSameResponse ==
    /\ [][(BatchStep /\ nfails' - nfails < ncalls' - ncalls) =>
            \A f, g \in BatchSent :
                /\ Has(results', get_image_id(f))
                /\ ResponseOf(Get(results', get_image_id(f)))
                     = ResponseOf(Get(results', get_image_id(g)))]_vars
    /\ [][(BatchStep /\ nfails' - nfails = ncalls' - ncalls) =>
            /\ results' = results
            /\ \A f \in BatchFiles : ~Has(results', get_image_id(f))]_vars

\* C30: in a call of evaluate_one_item or process_batch one wait of
\* RETRY_DELAY lies between every two consecutive attempts, a wait is
\* always followed by an attempt, and nothing follows the attempt that ends
\* the call, be it the final failed one or a successful one.
C30_RetryDelayOrdering ==
    /\ [](inv.pc = "call" => inv.sleeps = inv.calls)
    /\ [](inv.pc = "sleep" => (inv.sleeps = inv.calls - 1 /\ inv.calls <= MAX_RETRIES))
    /\ [](InvokerEnded => inv.sleeps = inv.calls - 1)
    /\ [][(inv.sleeps' # inv.sleeps) =>
            (inv.pc = "sleep" /\ inv.pc' = "call" /\ inv.sleeps' = inv.sleeps + 1)]_vars
    /\ [][~InvokerEnded]_vars

C30_Witness ==
    /\ inv.pc = "returned"
    /\ inv.value = Fallback
    /\ inv.calls = MAX_RETRIES + 1
    /\ inv.sleeps = MAX_RETRIES

C30_WitnessSuccess ==
    /\ inv.pc = "returned"
    /\ inv.value # Fallback
    /\ inv.calls = 2
    /\ inv.sleeps = 1

\* The process is inside the loop, the final save or the clean-up of a run.
Running == pc \in {"loop", "save", "rmckpt"}

\* C31: a call of evaluate_one_item or process_batch never goes deeper than
\* MAX_RETRIES + 1 levels and always ends; and a run that is not killed
\* always reaches its final save or its early return.
C31_Termination ==
    /\ [](inv.retry_count <= MAX_RETRIES /\ inv.calls <= MAX_RETRIES + 1)
    /\ (inv.pc \in {"call", "sleep"}) ~> InvokerEnded
    /\ Running ~> (pc \in {"done", "refused", "killed"})

\* C32: in the inference pipelines every item whose remote call was issued
\* in the current run has an entry in the result mapping, unless all
\* MAX_RETRIES + 1 requests for it failed.
C32_EntryUnlessExhausted ==
    (pipeline \in {"norat", "rat"} /\ pc \in {"loop", "save", "done"}) =>
        \A id \in called : Has(results, id) \/ id \in IdsOf(gaveup)

\* C33: in the image-only batch loop of either inference script the ids a
\* batch step records are the ids of the images that went into the request,
\* so that the two scripts record the same ids; an image that could not be
\* encoded has no entry.
C33_OnlySentImagesRecorded ==
    /\ [][(BatchStep /\ results' # results) =>
            Keys(results') \ Keys(results) = IdsOf(BatchSent)]_vars
    /\ []((pipeline \in {"norat", "rat"} /\ task < FIRST_IMAGE_TEXT_TASK) =>
            \A f \in ImageFiles :
                (~Encodable(f) /\ get_image_id(f) \notin IdsOf(ImageFiles \ {f}))
                    => ~Has(results, get_image_id(f)))

\* The result mapping that holds the first n submitted items in the order
\* of submission, each with the value its own invocation returned.
InSubmissionOrder(n) == [i \in 1..n |-> [k |-> pool.ids[i], v |-> pool.futures[i].value]]

RaceOver == \A i \in 1..MaxSameId : dl.w[i].pc \in {"returned", "raised"}

\* C35: when several downloads of one save path run concurrently, no
\* exception leaves download_image, and once all have returned a file that
\* was not there before is at the path only with bytes that pass the
\* validation.
C35_ConcurrentSamePath ==
    /\ \A i \in 1..MaxSameId : dl.w[i].pc # "raised"
    /\ (RaceOver /\ \E i \in 1..MaxSameId : dl.w[i].how # "exists") =>
          dl.file \in {"absent", "valid"}

\* The ids that got the default score after exhausted retries in the run
\* before, and whose entry was in the checkpoint file that run left.
FlushedFallbacks ==
    IF pipeline = "eval" /\ snap.ckpt.exists /\ snap.ckpt.valid
    THEN {id \in snap.gaveup : Has(snap.ckpt.data, id)}
    ELSE {}

\* C37: an item that got the default score after exhausted retries, with
\* the entry flushed to the checkpoint, is never submitted to the judge by
\* the run resumed from that checkpoint, and the final score file of that
\* run holds the entry of the default score for it.
C37_FallbackPersists ==
    \A id \in FlushedFallbacks :
        /\ Get(snap.ckpt.data, id) = [score |-> Num(DEFAULT_SCORE)]
        /\ id \notin called
        /\ Saved => (Has(out.data, id) /\ Get(out.data, id) = Get(snap.ckpt.data, id))

\* C37 witness: an evaluation run resumed after a kill from a checkpoint
\* that holds a fallback entry has called the judge for the other items
\* and ended by its final save.
C37_Witness ==
    /\ pipeline = "eval"
    /\ snap.prev = "killed"
    /\ FlushedFallbacks # {}
    /\ called # {}
    /\ Saved

\* The model name has no underscore, and no "task" that a digit follows.
PlainModelName(model) ==
    /\ Positions(model, "_") = {}
    /\ \A i \in 1..(Len(model) - 4) :
          SubSeq(model, i, i + 3) = <<"t", "a", "s", "k">> => ~IsDigit(model[i + 4])

\* C38: parse_filename of the output file name of an inference run gives
\* the model name, the language, the task number and the setting of the
\* run, whatever the model name is.
C38_FilenameRoundTrip ==
    (inv.fn = "parse_filename" /\ inv.pc = "parsed") => inv.value = inv.hist[1]

\* C7: a failure of one item's remote call never ends the run: no run
\* fails once a remote call was issued.
C7_PerItemFailuresContained ==
    pc = "failed" => ncalls = 0

\* C8: an evaluation run that was not killed ends with a score file holding
\* one numeric score in 0..100 for every item id of the inference file, for
\* both schemas of the inference file and every task number.
ScoreEntry(v) == v.score.t = "num" /\ v.score.v \in SCORE_MIN..SCORE_MAX

C8_ScorePerItem ==
    (pipeline = "eval" /\ pc \in {"done", "failed"}) =>
        /\ out.exists
        /\ Keys(out.data) = Keys(infile)
        /\ \A i \in 1..Len(out.data) : ScoreEntry(out.data[i].v)

\* C15: in the evaluation pipeline every entry of the result mapping, of the
\* checkpoint file and of the score file is a score v with 0 <= v <= 100.
C15_ScoreRange ==
    pipeline = "eval" =>
        \A d \in {results, ckpt.data, out.data} :
            \A i \in 1..Len(d) : ScoreEntry(d[i].v)

====
